---- MODULE Spec2Model ----
(***************************************************************************)
(* Verification model of orchestack/conductor: the catalog model, the      *)
(* structural diff engine (catalog/src/diff.rs), the in-memory apply       *)
(* (catalog/src/lib.rs), the stage/commit discipline of ensemble-x, the    *)
(* score compiler and parser (score/src), the policy evaluation            *)
(* (catalog/src/auth.rs), the HTTP handler endpoint (ostinator), the       *)
(* TableX write lock and the SQL shell loop of the conductor.              *)
(***************************************************************************)
EXTENDS Integers, Sequences, FiniteSets, TLC

VARIABLES
    from,       \* Catalog a handed to Diff::diff
    to,         \* Catalog b handed to Diff::diff
    pc,         \* position of the diff/apply driver
    edits,      \* Vec<Edit> returned by the first diff call
    edits2,     \* Vec<Edit> returned by a second diff call on the same inputs
    work,       \* working copy the edits are applied to
    idx,        \* index of the next edit to apply (1-based)
    catalog,    \* the Catalog that apply is called on (EnsembleX.catalog)
    before,     \* that catalog as it was when the last apply call started
    edit,       \* the edit of the last apply call
    status,     \* how the last apply call ended
    pending_actions, \* EnsembleX.pending_actions
    record,     \* the object stored at CATALOG_PATH
    objects,    \* the table locations that hold a physical table
    commit_ret, \* what the last EnsembleX::commit call did and returned
    new_ret,    \* what storage.get gave EnsembleX::new and how new ended
    pkg,        \* the ScorePkg handed to ScoreCompiler::compile
    compile_ret, \* what the compile call returned
    commit,     \* the --commit flag of the conductor apply command
    calls,      \* the EnsembleX::apply and commit calls apply_ensemble_x has made
    tokens,     \* the token stream handed to ScoreParser::parse
    parse_ret,  \* what the parse call returned
    request,    \* the path (ns_name, handler_name) of the request http_handler serves
    response,   \* how http_handler ended and what it passed to session.execute
    tablex,     \* the TableX handles that exist, each with its own inner Mutex
    writes,     \* the position of each TableX::write call and the handle it is on
    requested_interrupt, \* the flag of the shell loop of sql_ensemble_x
    shell,      \* whether the shell loop is still reading or has left
    events      \* the results rl.readline has returned so far, oldest first

diffVars == <<from, to, pc, edits, edits2, work, idx>>
applyVars == <<catalog, before, edit, status>>
ensembleVars == <<pending_actions, record, objects, commit_ret, new_ret>>
compileVars == <<pkg, compile_ret>>
conductorVars == <<commit, calls>>
parseVars == <<tokens, parse_ret>>
handlerVars == <<request, response>>
writeVars == <<tablex, writes>>
shellVars == <<requested_interrupt, shell, events>>
serverVars == <<handlerVars, writeVars, shellVars>>
vars == <<diffVars, applyVars, ensembleVars, compileVars, conductorVars, parseVars, serverVars>>

(***************************************************************************)
(* Bounds of the input universe.                                           *)
(***************************************************************************)
MaxUid == 2
MaxPending == 2
MaxDecls == 2

NsNames == {"n1", "n2"}
Uuids == {"U1", "U2"}
TableNames == {"t", "s"}
ColNames == {"x", "y"}
DataTypes == {"INTEGER", "TEXT"}
HandlerNames == {"h"}
Bodies == {"SELECT 1", "SELECT 2"}
PolicyRefs == {"p"}
AuthnNames == {"anon"}
AuthzNames == {"p"}
Exprs == {"true", "false"}
Uids == 1..MaxUid

(***************************************************************************)
(* HashMap<String, V> as a function over its set of keys.                  *)
(***************************************************************************)
EmptyMap == [k \in {} |-> k]

MapInsert(m, key, v) == [k \in (DOMAIN m) \cup {key} |-> IF k = key THEN v ELSE m[k]]

MapRemove(m, key) == [k \in (DOMAIN m) \ {key} |-> m[k]]

Values(m) == {m[k] : k \in DOMAIN m}

(***************************************************************************)
(* Catalog model (catalog/src/lib.rs).                                     *)
(***************************************************************************)
Column(uid, name, data_type) == [uid |-> uid, name |-> name, data_type |-> data_type]

Table(namespace, uuid, name, columns) ==
    [namespace |-> namespace, uuid |-> uuid, name |-> name, columns |-> columns]

HttpHandler(namespace, name, body, policy) ==
    [namespace |-> namespace, name |-> name, body |-> body, policy |-> policy]

AuthenticationPolicy(namespace, name, typ) ==
    [namespace |-> namespace, name |-> name, typ |-> typ]

AuthorizationPolicy(namespace, name, permissive_expr) ==
    [namespace |-> namespace, name |-> name, permissive_expr |-> permissive_expr]

Namespace(name, tables, http_handlers, authentication_policies, authorization_policies) ==
    [name |-> name, tables |-> tables, http_handlers |-> http_handlers,
     authentication_policies |-> authentication_policies,
     authorization_policies |-> authorization_policies]

\* Namespace { name, ..Default::default() }
DefaultNamespace(name) == Namespace(name, EmptyMap, EmptyMap, EmptyMap, EmptyMap)

Catalog(namespaces) == [namespaces |-> namespaces]

\* Catalog::default()
DefaultCatalog == Catalog(EmptyMap)

\* self.tables.values().find(|t| t.uuid == uuid): any table with that uuid
TablesByUuid(ns, uuid) == {t \in Values(ns.tables) : t.uuid = uuid}

get_table_by_uuid(ns, uuid) == CHOOSE t \in TablesByUuid(ns, uuid) : TRUE

get_http_handler_by_name(ns, name) == ns.http_handlers[name]

\* self.columns.iter().find(|c| c.uid == uid): the first column with that uid
get_column_by_uid(t, uid) ==
    LET hits == {i \in 1..Len(t.columns) : t.columns[i].uid = uid}
    IN t.columns[CHOOSE i \in hits : \A j \in hits : i <= j]

(***************************************************************************)
(* Edit (catalog/src/edit.rs, and the Ddl variant of lib.rs:92 that        *)
(* diff_table's Statement::into() produces).                               *)
(***************************************************************************)
CreateNamespace(name) == [kind |-> "CreateNamespace", name |-> name]
CreateTable(table) == [kind |-> "CreateTable", table |-> table]
DropTable(table) == [kind |-> "DropTable", table |-> table]
ReplaceHttpHandler(handler) == [kind |-> "ReplaceHttpHandler", handler |-> handler]
DropHttpHandler(handler) == [kind |-> "DropHttpHandler", handler |-> handler]
ReplaceAuthenticationPolicy(policy) == [kind |-> "ReplaceAuthenticationPolicy", policy |-> policy]
DropAuthenticationPolicy(policy) == [kind |-> "DropAuthenticationPolicy", policy |-> policy]
ReplaceAuthorizationPolicy(policy) == [kind |-> "ReplaceAuthorizationPolicy", policy |-> policy]
DropAuthorizationPolicy(policy) == [kind |-> "DropAuthorizationPolicy", policy |-> policy]
Ddl(stmt) == [kind |-> "Ddl", stmt |-> stmt]

(***************************************************************************)
(* sqlparser AST values built by diff_table.                               *)
(***************************************************************************)
\* Ident::with_quote('"', s)
identifier(s) == [value |-> s, quote_style |-> "\""]

ObjectName(idents) == idents

AlterTable(name, operation) == [stmt |-> "AlterTable", name |-> name, operation |-> operation]

RenameTable(table_name) == [op |-> "RenameTable", table_name |-> table_name]

DropColumn(column_name) ==
    [op |-> "DropColumn", column_name |-> column_name, if_exists |-> FALSE, cascade |-> FALSE]

AddColumn(name, data_type) ==
    [op |-> "AddColumn",
     column_def |-> [name |-> name, data_type |-> data_type, collation |-> "None", options |-> <<>>],
     column_keyword |-> TRUE, if_not_exists |-> FALSE]

RenameColumn(old_column_name, new_column_name) ==
    [op |-> "RenameColumn", old_column_name |-> old_column_name,
     new_column_name |-> new_column_name]

AlterColumn(column_name, data_type) ==
    [op |-> "AlterColumn", column_name |-> column_name,
     alter |-> [op |-> "SetDataType", data_type |-> data_type, using |-> "None"]]

(***************************************************************************)
(* Iteration orders of std::collections::HashSet: unspecified, so every    *)
(* enumeration of the set is a possible order.                             *)
(***************************************************************************)
RECURSIVE Orders(_)
Orders(S) ==
    IF S = {} THEN {<<>>}
    ELSE UNION {{<<x>> \o p : p \in Orders(S \ {x})} : x \in S}

RECURSIVE Flatten(_)
Flatten(ss) == IF ss = <<>> THEN <<>> ELSE Head(ss) \o Flatten(Tail(ss))

\* all concatenations that take one sequence from each set of ss, in order
RECURSIVE ConcatChoices(_)
ConcatChoices(ss) ==
    IF ss = <<>> THEN {<<>>}
    ELSE {h \o t : h \in Head(ss), t \in ConcatChoices(Tail(ss))}

(***************************************************************************)
(* Diff::diff_table (catalog/src/diff.rs:135-222): the set of edit         *)
(* sequences it can return, one per iteration order of its HashSets.       *)
(***************************************************************************)
ColumnIds(t) == {t.columns[i].uid : i \in 1..Len(t.columns)}

DropColumnOps(a, uid) == <<DropColumn(identifier(get_column_by_uid(a, uid).name))>>

AddColumnOps(b, uid) ==
    LET column == get_column_by_uid(b, uid)
    IN <<AddColumn(identifier(column.name), column.data_type)>>

\* faulty variant: the data types are not compared, SetDataType is always emitted
DiffColumnOps_AlwaysAlter(a, b, uid) ==
    LET a_column == get_column_by_uid(a, uid)
        b_column == get_column_by_uid(b, uid)
    IN (IF a_column.name # b_column.name
        THEN <<RenameColumn(identifier(a_column.name), identifier(b_column.name))>>
        ELSE <<>>)
       \o <<AlterColumn(identifier(b_column.name), b_column.data_type)>>

DiffColumnOps(a, b, uid) ==
    LET a_column == get_column_by_uid(a, uid)
        b_column == get_column_by_uid(b, uid)
    IN (IF a_column.name # b_column.name
        THEN <<RenameColumn(identifier(a_column.name), identifier(b_column.name))>>
        ELSE <<>>)
       \o
       (IF a_column.data_type # b_column.data_type
        THEN <<AlterColumn(identifier(b_column.name), b_column.data_type)>>
        ELSE <<>>)

\* faulty variant: the names are not compared, the rename is always emitted
RenameTableStmts_Always(a, b) ==
    <<Ddl(AlterTable(ObjectName(<<identifier(a.name)>>),
                     RenameTable(ObjectName(<<identifier(b.name)>>))))>>

\* faulty variant: a changed name is not noticed
RenameTableStmts_Never(a, b) == <<>>

RenameTableStmts(a, b) ==
    IF a.name # b.name
    THEN <<Ddl(AlterTable(ObjectName(<<identifier(a.name)>>),
                          RenameTable(ObjectName(<<identifier(b.name)>>))))>>
    ELSE <<>>

\* faulty variant: the column operations keep naming the table by its old name
AlterTableName_Old(a, b) == ObjectName(<<identifier(a.name)>>)

\* the table_name every column operation is wrapped with
AlterTableName(a, b) ==
    IF a.name # b.name THEN ObjectName(<<identifier(b.name)>>)
    ELSE ObjectName(<<identifier(a.name)>>)

\* faulty variant: the columns only in b are added before the columns only in a are dropped
AlterOps_AddFirst(a, b, drop_columns, create_columns, diff_columns) ==
    Flatten([i \in 1..Len(create_columns) |-> AddColumnOps(b, create_columns[i])])
    \o Flatten([i \in 1..Len(drop_columns) |-> DropColumnOps(a, drop_columns[i])])
    \o Flatten([i \in 1..Len(diff_columns) |-> DiffColumnOps(a, b, diff_columns[i])])

AlterOps(a, b, drop_columns, create_columns, diff_columns) ==
    Flatten([i \in 1..Len(drop_columns) |-> DropColumnOps(a, drop_columns[i])])
    \o Flatten([i \in 1..Len(create_columns) |-> AddColumnOps(b, create_columns[i])])
    \o Flatten([i \in 1..Len(diff_columns) |-> DiffColumnOps(a, b, diff_columns[i])])

DiffTableStmts(a, b, alter_ops) ==
    RenameTableStmts(a, b)
    \o [i \in 1..Len(alter_ops) |-> Ddl(AlterTable(AlterTableName(a, b), alter_ops[i]))]

DiffTable(a, b) ==
    LET a_column_ids == ColumnIds(a)
        b_column_ids == ColumnIds(b)
    IN {DiffTableStmts(a, b, AlterOps(a, b, drop_columns, create_columns, diff_columns)) :
            drop_columns \in Orders(a_column_ids \ b_column_ids),
            create_columns \in Orders(b_column_ids \ a_column_ids),
            diff_columns \in Orders(a_column_ids \cap b_column_ids)}

(***************************************************************************)
(* Diff::diff_namespace (catalog/src/diff.rs:63-133).                      *)
(***************************************************************************)
TableIds(ns) == {t.uuid : t \in Values(ns.tables)}

HandlerNamesOf(ns) == {h.name : h \in Values(ns.http_handlers)}

\* faulty variant: only the first table of drop_tables is dropped
DropTableEdits_FirstOnly(a, drop_tables) ==
    [i \in 1..(IF Len(drop_tables) > 1 THEN 1 ELSE Len(drop_tables)) |->
        DropTable(get_table_by_uuid(a, drop_tables[i]))]

DropTableEdits(a, drop_tables) ==
    [i \in 1..Len(drop_tables) |-> DropTable(get_table_by_uuid(a, drop_tables[i]))]

\* faulty variant: the created table is emitted without its columns
CreateTableEdits_NoColumns(b, create_tables) ==
    [i \in 1..Len(create_tables) |->
        CreateTable([get_table_by_uuid(b, create_tables[i]) EXCEPT !.columns = <<>>])]

CreateTableEdits(b, create_tables) ==
    [i \in 1..Len(create_tables) |-> CreateTable(get_table_by_uuid(b, create_tables[i]))]

\* one choice of diff_table's output per table of diff_tables, in that order
DiffTablesEdits(a, b, diff_tables) ==
    ConcatChoices([i \in 1..Len(diff_tables) |->
        DiffTable(get_table_by_uuid(a, diff_tables[i]), get_table_by_uuid(b, diff_tables[i]))])

\* HttpHandler { namespace: a.name.clone(), name: handler.name.clone() }
DropHandlerEdits(a, drop_handlers) ==
    [i \in 1..Len(drop_handlers) |->
        DropHttpHandler([namespace |-> a.name,
                         name |-> get_http_handler_by_name(a, drop_handlers[i]).name])]

CreateHandlerEdits(b, create_handlers) ==
    [i \in 1..Len(create_handlers) |->
        ReplaceHttpHandler([namespace |-> b.name,
                            name |-> get_http_handler_by_name(b, create_handlers[i]).name])]

\* faulty variant: the tables only in b are created before the tables only in a are dropped
DiffNamespace_CreateFirst(a, b) ==
    LET a_table_ids == TableIds(a)
        b_table_ids == TableIds(b)
        a_handler_names == HandlerNamesOf(a)
        b_handler_names == HandlerNamesOf(b)
        table_alterations ==
            UNION {DiffTablesEdits(a, b, diff_tables) :
                       diff_tables \in Orders(a_table_ids \cap b_table_ids)}
    IN {CreateTableEdits(b, create_tables) \o DropTableEdits(a, drop_tables) \o alterations
        \o DropHandlerEdits(a, drop_handlers) \o CreateHandlerEdits(b, create_handlers) :
            drop_tables \in Orders(a_table_ids \ b_table_ids),
            create_tables \in Orders(b_table_ids \ a_table_ids),
            alterations \in table_alterations,
            drop_handlers \in Orders(a_handler_names \ b_handler_names),
            create_handlers \in Orders(b_handler_names \ a_handler_names)}

DiffNamespace(a, b) ==
    LET a_table_ids == TableIds(a)
        b_table_ids == TableIds(b)
        a_handler_names == HandlerNamesOf(a)
        b_handler_names == HandlerNamesOf(b)
        table_alterations ==
            UNION {DiffTablesEdits(a, b, diff_tables) :
                       diff_tables \in Orders(a_table_ids \cap b_table_ids)}
    IN {DropTableEdits(a, drop_tables) \o CreateTableEdits(b, create_tables) \o alterations
        \o DropHandlerEdits(a, drop_handlers) \o CreateHandlerEdits(b, create_handlers) :
            drop_tables \in Orders(a_table_ids \ b_table_ids),
            create_tables \in Orders(b_table_ids \ a_table_ids),
            alterations \in table_alterations,
            drop_handlers \in Orders(a_handler_names \ b_handler_names),
            create_handlers \in Orders(b_handler_names \ a_handler_names)}

(***************************************************************************)
(* Diff::diff (catalog/src/diff.rs:19-61).                                 *)
(***************************************************************************)
NamespaceNamesOf(c) == {ns.name : ns \in Values(c.namespaces)}

\* faulty variant: CreateNamespace is pushed after the edits of the new namespace
DiffOneNamespace_CreateLast(a, b, ns_name) ==
    IF ns_name \in DOMAIN a.namespaces /\ ns_name \in DOMAIN b.namespaces
    THEN DiffNamespace(a.namespaces[ns_name], b.namespaces[ns_name])
    ELSE IF ns_name \in DOMAIN a.namespaces
    THEN DiffNamespace(a.namespaces[ns_name], DefaultNamespace(a.namespaces[ns_name].name))
    ELSE {es \o <<CreateNamespace(b.namespaces[ns_name].name)>> :
              es \in DiffNamespace(DefaultNamespace(b.namespaces[ns_name].name),
                                   b.namespaces[ns_name])}

\* the match on (a.namespaces.get(ns_name), b.namespaces.get(ns_name))
DiffOneNamespace(a, b, ns_name) ==
    IF ns_name \in DOMAIN a.namespaces /\ ns_name \in DOMAIN b.namespaces
    THEN DiffNamespace(a.namespaces[ns_name], b.namespaces[ns_name])
    ELSE IF ns_name \in DOMAIN a.namespaces
    THEN DiffNamespace(a.namespaces[ns_name], DefaultNamespace(a.namespaces[ns_name].name))
    ELSE {<<CreateNamespace(b.namespaces[ns_name].name)>> \o es :
              es \in DiffNamespace(DefaultNamespace(b.namespaces[ns_name].name),
                                   b.namespaces[ns_name])}

DiffInOrder(a, b, namespaces) ==
    ConcatChoices([i \in 1..Len(namespaces) |-> DiffOneNamespace(a, b, namespaces[i])])

Diff(a, b) ==
    UNION {DiffInOrder(a, b, namespaces) :
               namespaces \in Orders(NamespaceNamesOf(a) \cup NamespaceNamesOf(b))}

(***************************************************************************)
(* The places where diff stops without returning: Option::unwrap on a      *)
(* lookup that found nothing, assert_eq! and unreachable!().  No code path *)
(* of diff.rs constructs a DiffError.                                      *)
(***************************************************************************)
\* faulty variant: the table is looked up under the uuid as the key of the map
TableFound_ByKey(ns, uuid) == uuid \in DOMAIN ns.tables

\* get_table_by_uuid(..) is Some
TableFound(ns, uuid) == TablesByUuid(ns, uuid) # {}

\* get_http_handler_by_name(..) is Some
HandlerFound(ns, name) == name \in DOMAIN ns.http_handlers

\* get_column_by_uid(..) is Some
ColumnFound(t, uid) == \E i \in 1..Len(t.columns) : t.columns[i].uid = uid

DiffTableAborts(a, b) ==
    \/ a.uuid # b.uuid
    \/ \E uid \in ColumnIds(a) : ~ColumnFound(a, uid)
    \/ \E uid \in ColumnIds(b) : ~ColumnFound(b, uid)

DiffNamespaceAborts(a, b) ==
    \/ a.name # b.name
    \/ \E uuid \in TableIds(a) : ~TableFound(a, uuid)
    \/ \E uuid \in TableIds(b) : ~TableFound(b, uuid)
    \/ \E uuid \in TableIds(a) \cap TableIds(b) :
          /\ TableFound(a, uuid)
          /\ TableFound(b, uuid)
          /\ DiffTableAborts(get_table_by_uuid(a, uuid), get_table_by_uuid(b, uuid))
    \/ \E name \in HandlerNamesOf(a) \ HandlerNamesOf(b) : ~HandlerFound(a, name)
    \/ \E name \in HandlerNamesOf(b) \ HandlerNamesOf(a) : ~HandlerFound(b, name)

DiffAborts(a, b) ==
    \E ns_name \in NamespaceNamesOf(a) \cup NamespaceNamesOf(b) :
       IF ns_name \in DOMAIN a.namespaces /\ ns_name \in DOMAIN b.namespaces
       THEN DiffNamespaceAborts(a.namespaces[ns_name], b.namespaces[ns_name])
       ELSE IF ns_name \in DOMAIN a.namespaces
       THEN DiffNamespaceAborts(a.namespaces[ns_name],
                                DefaultNamespace(a.namespaces[ns_name].name))
       ELSE IF ns_name \in DOMAIN b.namespaces
       THEN DiffNamespaceAborts(DefaultNamespace(b.namespaces[ns_name].name),
                                b.namespaces[ns_name])
       ELSE TRUE

\* what a call of diff can end with
DiffOutcomes(a, b) ==
    IF DiffAborts(a, b) THEN {[status |-> "panic"]}
    ELSE {[status |-> "Ok", value |-> es] : es \in Diff(a, b)}

(***************************************************************************)
(* Catalog::apply (catalog/src/lib.rs:25-96).  A call either returns Ok(())*)
(* or aborts the thread (Option::unwrap on None, todo!()); the catalog of  *)
(* the result is the catalog the call leaves behind.                       *)
(***************************************************************************)
Ok(c) == [status |-> "Ok", catalog |-> c]

Panic(c) == [status |-> "panic", catalog |-> c]

ApplyCreateNamespace(c, name) ==
    Ok(Catalog(MapInsert(c.namespaces, name, DefaultNamespace(name))))

\* faulty variant: the table is inserted under its uuid as the key
ApplyCreateTable_KeyByUuid(c, table) ==
    IF table.namespace \notin DOMAIN c.namespaces THEN Panic(c)
    ELSE Ok([c EXCEPT !.namespaces[table.namespace].tables = MapInsert(@, table.uuid, table)])

ApplyCreateTable(c, table) ==
    IF table.namespace \notin DOMAIN c.namespaces THEN Panic(c)
    ELSE Ok([c EXCEPT !.namespaces[table.namespace].tables = MapInsert(@, table.name, table)])

\* faulty variant: the table is looked up by uuid, and every table with that uuid removed
ApplyDropTable_ByUuid(c, table) ==
    IF table.namespace \notin DOMAIN c.namespaces THEN Panic(c)
    ELSE Ok([c EXCEPT !.namespaces[table.namespace].tables =
                [k \in {j \in DOMAIN @ : @[j].uuid # table.uuid} |-> @[k]]])

ApplyDropTable(c, table) ==
    IF table.namespace \notin DOMAIN c.namespaces THEN Panic(c)
    ELSE Ok([c EXCEPT !.namespaces[table.namespace].tables = MapRemove(@, table.name)])

ApplyReplaceHttpHandler(c, handler) ==
    IF handler.namespace \notin DOMAIN c.namespaces THEN Panic(c)
    ELSE Ok([c EXCEPT !.namespaces[handler.namespace].http_handlers =
                          MapInsert(@, handler.name, handler)])

ApplyDropHttpHandler(c, handler) ==
    IF handler.namespace \notin DOMAIN c.namespaces THEN Panic(c)
    ELSE Ok([c EXCEPT !.namespaces[handler.namespace].http_handlers =
                          MapRemove(@, handler.name)])

ApplyReplaceAuthenticationPolicy(c, policy) ==
    IF policy.namespace \notin DOMAIN c.namespaces THEN Panic(c)
    ELSE Ok([c EXCEPT !.namespaces[policy.namespace].authentication_policies =
                          MapInsert(@, policy.name, policy)])

ApplyDropAuthenticationPolicy(c, policy) ==
    IF policy.namespace \notin DOMAIN c.namespaces THEN Panic(c)
    ELSE Ok([c EXCEPT !.namespaces[policy.namespace].authentication_policies =
                          MapRemove(@, policy.name)])

ApplyReplaceAuthorizationPolicy(c, policy) ==
    IF policy.namespace \notin DOMAIN c.namespaces THEN Panic(c)
    ELSE Ok([c EXCEPT !.namespaces[policy.namespace].authorization_policies =
                          MapInsert(@, policy.name, policy)])

ApplyDropAuthorizationPolicy(c, policy) ==
    IF policy.namespace \notin DOMAIN c.namespaces THEN Panic(c)
    ELSE Ok([c EXCEPT !.namespaces[policy.namespace].authorization_policies =
                          MapRemove(@, policy.name)])

\* Edit::Ddl(_) => todo!()
ApplyDdl(c, stmt) == Panic(c)

Apply(c, e) ==
    CASE e.kind = "CreateNamespace" -> ApplyCreateNamespace(c, e.name)
      [] e.kind = "CreateTable" -> ApplyCreateTable(c, e.table)
      [] e.kind = "DropTable" -> ApplyDropTable(c, e.table)
      [] e.kind = "ReplaceHttpHandler" -> ApplyReplaceHttpHandler(c, e.handler)
      [] e.kind = "DropHttpHandler" -> ApplyDropHttpHandler(c, e.handler)
      [] e.kind = "ReplaceAuthenticationPolicy" -> ApplyReplaceAuthenticationPolicy(c, e.policy)
      [] e.kind = "DropAuthenticationPolicy" -> ApplyDropAuthenticationPolicy(c, e.policy)
      [] e.kind = "ReplaceAuthorizationPolicy" -> ApplyReplaceAuthorizationPolicy(c, e.policy)
      [] e.kind = "DropAuthorizationPolicy" -> ApplyDropAuthorizationPolicy(c, e.policy)
      [] e.kind = "Ddl" -> ApplyDdl(c, e.stmt)

(***************************************************************************)
(* Input universe: catalogs that satisfy the data-model invariants.        *)
(***************************************************************************)
Columns == [uid : Uids, name : ColNames, data_type : DataTypes]

ColumnLists ==
    {cl \in UNION {[1..n -> Columns] : n \in 0..MaxUid} :
        \A i, j \in 1..Len(cl) : i # j => cl[i].uid # cl[j].uid /\ cl[i].name # cl[j].name}

OneNamespace(ns) == Catalog([k \in {ns.name} |-> ns])

\* one table with any column list
CatalogsT ==
    {OneNamespace(Namespace("n1", [k \in {name} |-> Table("n1", "U1", name, cl)],
                            EmptyMap, EmptyMap, EmptyMap)) :
        name \in TableNames, cl \in ColumnLists}

\* any tables (distinct uuids, distinct names) of namespace n
TableMaps(n) ==
    {[k \in DOMAIN f |-> Table(n, f[k], k, <<>>)] :
        f \in {g \in UNION {[S -> Uuids] : S \in SUBSET TableNames} :
                  \A k1, k2 \in DOMAIN g : k1 # k2 => g[k1] # g[k2]}}

HandlerMaps(n) ==
    {EmptyMap} \cup
    {[k \in {h} |-> HttpHandler(n, h, body, policy)] :
        h \in HandlerNames, body \in Bodies, policy \in PolicyRefs}

AuthenticationMaps(n) ==
    {EmptyMap} \cup
    {[k \in {name} |-> AuthenticationPolicy(n, name, "Anonymous")] : name \in AuthnNames}

AuthorizationMaps(n) ==
    {EmptyMap} \cup
    {[k \in {name} |-> AuthorizationPolicy(n, name, expr)] : name \in AuthzNames, expr \in Exprs}

\* one namespace with any tables and handlers
CatalogsN ==
    {OneNamespace(Namespace("n1", tables, handlers, EmptyMap, EmptyMap)) :
        tables \in TableMaps("n1"), handlers \in HandlerMaps("n1")}

\* one namespace with any handlers and policies
CatalogsP ==
    {OneNamespace(Namespace("n1", EmptyMap, handlers, authn, authz)) :
        handlers \in HandlerMaps("n1"), authn \in AuthenticationMaps("n1"),
        authz \in AuthorizationMaps("n1")}

SmallNamespaces(n) ==
    {DefaultNamespace(n),
     Namespace(n, [k \in {"t"} |-> Table(n, "U1", "t", <<>>)], EmptyMap, EmptyMap, EmptyMap),
     Namespace(n, EmptyMap, [k \in {"h"} |-> HttpHandler(n, "h", "SELECT 1", "p")],
               EmptyMap, EmptyMap)}

\* any set of namespaces
CatalogsC ==
    UNION {{Catalog(m) : m \in {f \in [S -> UNION {SmallNamespaces(n) : n \in NsNames}] :
                                    \A n \in S : f[n].name = n}} :
           S \in SUBSET NsNames}

\* one table whose second column has a uid above those of ColumnLists
CatalogsW ==
    {OneNamespace(Namespace("n1", [k \in {"t"} |-> Table("n1", "U1", "t", <<c1, c2>>)],
                            EmptyMap, EmptyMap, EmptyMap)) :
        <<c1, c2>> \in {p \in Columns \X [uid : {MaxUid + 1}, name : ColNames,
                                             data_type : DataTypes] :
                           p[1].name # p[2].name}}

Catalogs == CatalogsT \cup CatalogsN \cup CatalogsP \cup CatalogsC \cup CatalogsW

(***************************************************************************)
(* The diff/apply driver (conductor/src/main.rs:133-164): diff the two     *)
(* catalogs, then apply the edits in emitted order to a working copy.      *)
(***************************************************************************)
NotCalled == <<"not called">>

NoEdit == [kind |-> "none"]

NoCommit == [result |-> "none"]

Absent == [found |-> FALSE]

\* no request has been served yet
NoRequest == [ns_name |-> "", handler_name |-> ""]
NoResponse == [status |-> "none"]

\* the tasks that may call TableX::write at the same time
Writers == {"w1", "w2"}
NotWriting == [pc |-> "idle"]

NotCompiled == [status |-> "none"]

NotConstructed == [ret |-> [result |-> "none"]]

NotParsed == [status |-> "none"]

IdleDiff ==
    /\ from = DefaultCatalog
    /\ to = DefaultCatalog
    /\ pc = "idle"
    /\ edits = NotCalled
    /\ edits2 = NotCalled
    /\ work = DefaultCatalog
    /\ idx = 1

IdleApply ==
    /\ catalog = DefaultCatalog
    /\ before = DefaultCatalog
    /\ edit = NoEdit
    /\ status = "none"

IdleEnsemble ==
    /\ pending_actions = <<>>
    /\ record = Absent
    /\ objects = {}
    /\ commit_ret = NoCommit
    /\ new_ret = NotConstructed

IdleConductor ==
    /\ commit = FALSE
    /\ calls = <<>>

IdleParse ==
    /\ tokens = <<>>
    /\ parse_ret = NotParsed

IdleHandler ==
    /\ request = NoRequest
    /\ response = NoResponse

IdleWrite ==
    /\ tablex = <<>>
    /\ writes = [w \in Writers |-> NotWriting]

IdleShell ==
    /\ requested_interrupt = FALSE
    /\ shell = "reading"
    /\ events = <<>>

IdleServer ==
    /\ IdleHandler
    /\ IdleWrite
    /\ IdleShell

IdleCompile ==
    /\ pkg = [path |-> "score", files |-> <<>>]
    /\ compile_ret = NotCompiled

InitDiff ==
    /\ IdleApply
    /\ IdleEnsemble
    /\ IdleCompile
    /\ IdleConductor
    /\ IdleParse
    /\ IdleServer
    /\ from \in Catalogs
    /\ to \in Catalogs
    /\ pc = "start"
    /\ edits = NotCalled
    /\ edits2 = NotCalled
    /\ work = from
    /\ idx = 1

DoDiff ==
    /\ pc = "start"
    /\ \E r \in DiffOutcomes(from, to) :
          IF r.status = "Ok"
          THEN edits' = r.value /\ pc' = "diffed"
          ELSE edits' = edits /\ pc' = "aborted"
    /\ UNCHANGED <<from, to, edits2, work, idx, applyVars, ensembleVars, compileVars, conductorVars, parseVars, serverVars>>

\* a second call of diff on the same two catalogs
DoDiffAgain ==
    /\ pc = "diffed"
    /\ \E r \in DiffOutcomes(from, to) :
          IF r.status = "Ok"
          THEN edits2' = r.value /\ pc' = "diffed_twice"
          ELSE edits2' = edits2 /\ pc' = "aborted"
    /\ UNCHANGED <<from, to, edits, work, idx, applyVars, ensembleVars, compileVars, conductorVars, parseVars, serverVars>>

ApplyNext ==
    /\ pc \in {"diffed", "applying"}
    /\ idx <= Len(edits)
    /\ LET r == Apply(work, edits[idx])
       IN IF r.status = "Ok"
          THEN /\ work' = r.catalog
               /\ idx' = idx + 1
               /\ pc' = "applying"
          ELSE /\ work' = r.catalog
               /\ idx' = idx
               /\ pc' = "panicked"
    /\ UNCHANGED <<from, to, edits, edits2, applyVars, ensembleVars, compileVars, conductorVars, parseVars, serverVars>>

ApplyDone ==
    /\ pc \in {"diffed", "applying"}
    /\ idx > Len(edits)
    /\ pc' = "applied"
    /\ UNCHANGED <<from, to, edits, edits2, work, idx, applyVars, ensembleVars, compileVars, conductorVars, parseVars, serverVars>>

NextDiff == DoDiff \/ DoDiffAgain \/ ApplyNext \/ ApplyDone

SpecDiff == InitDiff /\ [][NextDiff]_vars

(***************************************************************************)
(* Helpers for stating properties of an edit script.                       *)
(***************************************************************************)
NoNamespace == "<none>"

\* the namespace an edit names (a Ddl statement names none)
EditNamespace(e) ==
    CASE e.kind = "CreateNamespace" -> e.name
      [] e.kind \in {"CreateTable", "DropTable"} -> e.table.namespace
      [] e.kind \in {"ReplaceHttpHandler", "DropHttpHandler"} -> e.handler.namespace
      [] e.kind \in {"ReplaceAuthenticationPolicy", "DropAuthenticationPolicy",
                     "ReplaceAuthorizationPolicy", "DropAuthorizationPolicy"} ->
             e.policy.namespace
      [] OTHER -> NoNamespace

\* category of an edit in the cross-category ordering
Rank(e) ==
    CASE e.kind = "CreateNamespace" -> 0
      [] e.kind = "DropTable" -> 1
      [] e.kind = "CreateTable" -> 2
      [] e.kind = "Ddl" -> 3
      [] OTHER -> 4

Diffed == pc \in {"diffed", "diffed_twice", "applying", "applied", "panicked"}

Replayed == pc \in {"applied", "panicked"}

CommonNamespaces == (DOMAIN from.namespaces) \cap (DOMAIN to.namespaces)

CommonTables(n) == TableIds(from.namespaces[n]) \cap TableIds(to.namespaces[n])

FromTable(n, u) == get_table_by_uuid(from.namespaces[n], u)

ToTable(n, u) == get_table_by_uuid(to.namespaces[n], u)

IsTableRename(e, a, b) ==
    /\ e.kind = "Ddl"
    /\ e.stmt = AlterTable(ObjectName(<<identifier(a.name)>>),
                           RenameTable(ObjectName(<<identifier(b.name)>>)))

(***************************************************************************)
(* C1: applying the edits of diff(from, to) in emitted order to a working  *)
(* copy of from completes and yields a catalog equal to to.                *)
(***************************************************************************)
C1_RoundTrip == Replayed => (pc = "applied" /\ work = to)

(***************************************************************************)
(* C2: diff is deterministic: two calls on the same two catalogs return    *)
(* the same edit sequence, element by element.                             *)
(***************************************************************************)
C2_DiffDeterministic == pc = "diffed_twice" => edits = edits2

(***************************************************************************)
(* C4: when the edits of diff(from, to) are applied in emitted order, the  *)
(* namespace named by each edit is present in the working catalog at the   *)
(* moment the edit is applied: it was in from, or its CreateNamespace edit *)
(* occurs earlier in the script.                                           *)
(***************************************************************************)
C4_NamespacePresent ==
    /\ (pc \in {"diffed", "applying"} /\ idx <= Len(edits)
        /\ edits[idx].kind \notin {"CreateNamespace", "Ddl"})
       => EditNamespace(edits[idx]) \in DOMAIN work.namespaces
    /\ Diffed =>
         \A i \in 1..Len(edits) :
            edits[i].kind \notin {"CreateNamespace", "Ddl"} =>
               \/ EditNamespace(edits[i]) \in DOMAIN from.namespaces
               \/ \E j \in 1..(i - 1) : edits[j] = CreateNamespace(EditNamespace(edits[i]))

\* an edit of a namespace that from lacks is about to be applied
C4_Witness ==
    /\ pc = "applying"
    /\ idx <= Len(edits)
    /\ edits[idx].kind \in {"CreateTable", "ReplaceHttpHandler"}
    /\ EditNamespace(edits[idx]) \notin DOMAIN from.namespaces
    /\ EditNamespace(edits[idx]) \in DOMAIN work.namespaces

(***************************************************************************)
(* C5 as stated: in every script of diff, all CreateNamespace edits        *)
(* precede every other edit of the script, and the remaining edits are     *)
(* ordered DropTable, CreateTable, table alterations, handler/policy edits *)
(* within each namespace.                                                  *)
(***************************************************************************)
OrderedWithinNamespace(es) ==
    \A i, j \in 1..Len(es) : i < j => Rank(es[i]) <= Rank(es[j])

NamespaceScriptsOrdered ==
    \A n \in (DOMAIN from.namespaces) \cup (DOMAIN to.namespaces) :
        \A es \in DiffOneNamespace(from, to, n) : OrderedWithinNamespace(es)

C5_CreateNamespaceFirstInScript ==
    Diffed =>
      /\ \A i, j \in 1..Len(edits) :
            (edits[i].kind = "CreateNamespace" /\ edits[j].kind # "CreateNamespace") => i < j
      /\ NamespaceScriptsOrdered

(***************************************************************************)
(* C5 amended: each CreateNamespace edit precedes every other edit of its  *)
(* own namespace (edits of other namespaces may come before it); and for   *)
(* each namespace every DropTable precedes every CreateTable, every        *)
(* CreateTable precedes every table alteration, and every table edit       *)
(* precedes every handler/policy drop or create of that namespace.         *)
(***************************************************************************)
C5_OrderedPerNamespace ==
    Diffed =>
      /\ \A i, j \in 1..Len(edits) :
            (/\ edits[i].kind = "CreateNamespace"
             /\ edits[j].kind \notin {"CreateNamespace", "Ddl"}
             /\ EditNamespace(edits[j]) = edits[i].name) => i < j
      /\ NamespaceScriptsOrdered

\* a script with a CreateNamespace, a DropTable-free create, an alteration and a handler edit
C5_Witness ==
    /\ pc = "diffed"
    /\ \E i, j, k \in 1..Len(edits) :
          /\ i < j /\ j < k
          /\ edits[i].kind \in {"DropTable", "CreateTable"}
          /\ edits[j].kind = "Ddl"
          /\ edits[k].kind \in {"ReplaceHttpHandler", "DropHttpHandler"}

(***************************************************************************)
(* C7: diff never emits a raw DDL-statement edit, so apply completes on    *)
(* every edit of every diff output.                                        *)
(***************************************************************************)
C7_NoDdlEdit ==
    /\ Diffed => \A i \in 1..Len(edits) : edits[i].kind # "Ddl"
    /\ pc # "panicked"

(***************************************************************************)
(* C8: for every catalog c satisfying the invariants, diff(c, c) is the    *)
(* empty edit sequence.                                                    *)
(***************************************************************************)
C8_SelfDiffEmpty ==
    /\ (Diffed /\ from = to) => edits = <<>>
    /\ (pc = "diffed_twice" /\ from = to) => edits2 = <<>>

\* diff has run on two equal catalogs that hold a table with two columns
C8_Witness ==
    /\ pc = "diffed"
    /\ from = to
    /\ \E n \in DOMAIN from.namespaces :
          \E t \in Values(from.namespaces[n].tables) : Len(t.columns) = 2

(***************************************************************************)
(* C9: a table with the same uuid in from and to, a different name and     *)
(* unchanged columns yields exactly one edit, the rename-table from the    *)
(* old name to the new name, and neither a DropTable nor a CreateTable.    *)
(***************************************************************************)
RenamedOnly(n, u) ==
    /\ FromTable(n, u).name # ToTable(n, u).name
    /\ FromTable(n, u).columns = ToTable(n, u).columns

C9_RenameTableOnly ==
    Diffed =>
      \A n \in CommonNamespaces : \A u \in CommonTables(n) :
         RenamedOnly(n, u) =>
            LET a == FromTable(n, u)
                b == ToTable(n, u)
                IsRename(e) == IsTableRename(e, a, b)
                IsDropOrCreate(e) ==
                    /\ e.kind \in {"DropTable", "CreateTable"}
                    /\ e.table.namespace = n
                    /\ e.table.uuid = u
            IN /\ \A es \in DiffTable(a, b) : Len(es) = 1 /\ IsRename(es[1])
               /\ Cardinality({i \in 1..Len(edits) : IsRename(edits[i])}) = 1
               /\ Cardinality({i \in 1..Len(edits) : IsDropOrCreate(edits[i])}) = 0

\* diff has run on a pair in which a table with a column was only renamed
C9_Witness ==
    /\ pc = "diffed"
    /\ \E n \in CommonNamespaces : \E u \in CommonTables(n) :
          /\ RenamedOnly(n, u)
          /\ Len(FromTable(n, u).columns) > 0

(***************************************************************************)
(* C10: within a table present by uuid in both catalogs, a column whose    *)
(* uid is in both and whose name changed but type did not yields exactly   *)
(* one rename-column edit and nothing else for that column; a column whose *)
(* uid changed yields exactly one drop-column for the old uid, one         *)
(* add-column for the new uid, and no rename-column.                       *)
(***************************************************************************)
ColumnOpIs(e, operation) == e.kind = "Ddl" /\ e.stmt.operation = operation

\* the column operations of es that name a column called name
NamesColumn(e, name) ==
    /\ e.kind = "Ddl"
    /\ LET o == e.stmt.operation
       IN CASE o.op = "DropColumn" -> o.column_name = identifier(name)
            [] o.op = "AddColumn" -> o.column_def.name = identifier(name)
            [] o.op = "RenameColumn" ->
                   o.old_column_name = identifier(name) \/ o.new_column_name = identifier(name)
            [] o.op = "AlterColumn" -> o.column_name = identifier(name)
            [] OTHER -> FALSE

RenamedColumns(a, b) ==
    {uid \in ColumnIds(a) \cap ColumnIds(b) :
        /\ get_column_by_uid(a, uid).name # get_column_by_uid(b, uid).name
        /\ get_column_by_uid(a, uid).data_type = get_column_by_uid(b, uid).data_type}

ColumnRenameOnly(es, a, b, uid) ==
    LET old == get_column_by_uid(a, uid).name
        new == get_column_by_uid(b, uid).name
        IsRename(e) == ColumnOpIs(e, RenameColumn(identifier(old), identifier(new)))
        OtherOp(e) ==
            /\ ~IsRename(e)
            /\ \/ (e.kind = "Ddl" /\ e.stmt.operation.op = "DropColumn" /\ NamesColumn(e, old))
               \/ (e.kind = "Ddl" /\ e.stmt.operation.op = "RenameColumn"
                   /\ e.stmt.operation.old_column_name = identifier(old))
               \/ (e.kind = "Ddl" /\ e.stmt.operation.op = "RenameColumn"
                   /\ e.stmt.operation.new_column_name = identifier(new))
               \/ (e.kind = "Ddl" /\ e.stmt.operation.op \in {"AddColumn", "AlterColumn"}
                   /\ NamesColumn(e, new))
    IN Cardinality({i \in 1..Len(es) : IsRename(es[i])}) = 1 /\ Cardinality({i \in 1..Len(es) : OtherOp(es[i])}) = 0

ColumnUidChanged(es, a, b, old_uid, new_uid) ==
    LET old == get_column_by_uid(a, old_uid)
        new == get_column_by_uid(b, new_uid)
        IsDrop(e) == ColumnOpIs(e, DropColumn(identifier(old.name)))
        IsAdd(e) == ColumnOpIs(e, AddColumn(identifier(new.name), new.data_type))
        IsRename(e) ==
            /\ e.kind = "Ddl"
            /\ e.stmt.operation.op = "RenameColumn"
            /\ \/ e.stmt.operation.old_column_name = identifier(old.name)
               \/ e.stmt.operation.new_column_name = identifier(new.name)
    IN Cardinality({i \in 1..Len(es) : IsDrop(es[i])}) = 1 /\ Cardinality({i \in 1..Len(es) : IsAdd(es[i])}) = 1 /\ Cardinality({i \in 1..Len(es) : IsRename(es[i])}) = 0

C10_ColumnEdits ==
    Diffed =>
      \A n \in CommonNamespaces : \A u \in CommonTables(n) :
         LET a == FromTable(n, u)
             b == ToTable(n, u)
         IN \A es \in DiffTable(a, b) :
               /\ \A uid \in RenamedColumns(a, b) : ColumnRenameOnly(es, a, b, uid)
               /\ \A old_uid \in ColumnIds(a) \ ColumnIds(b) :
                     \A new_uid \in ColumnIds(b) \ ColumnIds(a) :
                        ColumnUidChanged(es, a, b, old_uid, new_uid)

\* diff has run on a table with one column renamed and another whose uid changed
C10_Witness ==
    /\ pc = "diffed"
    /\ \E n \in CommonNamespaces : \E u \in CommonTables(n) :
          /\ RenamedColumns(FromTable(n, u), ToTable(n, u)) # {}
          /\ \E i \in 1..Len(edits) : edits[i].kind = "Ddl"
                                       /\ edits[i].stmt.operation.op = "RenameColumn"

\* diff has run on a table in which a column keeps its name and changes uid
C10_WitnessUid ==
    /\ pc = "diffed"
    /\ \E n \in CommonNamespaces : \E u \in CommonTables(n) :
          LET a == FromTable(n, u)
              b == ToTable(n, u)
          IN \E old_uid \in ColumnIds(a) \ ColumnIds(b) :
                \E new_uid \in ColumnIds(b) \ ColumnIds(a) :
                   get_column_by_uid(a, old_uid).name = get_column_by_uid(b, new_uid).name

(***************************************************************************)
(* C11: CreateNamespace{name} is emitted exactly once for each namespace   *)
(* name present in to and absent from from, and for no other name; it      *)
(* precedes all other edits of that namespace; each table of such a        *)
(* namespace yields exactly one CreateTable that carries the table's       *)
(* complete column list, and no per-column edit.                           *)
(***************************************************************************)
NewNamespaces == (DOMAIN to.namespaces) \ (DOMAIN from.namespaces)

C11_NewNamespace ==
    Diffed =>
      /\ \A i \in 1..Len(edits) :
            edits[i].kind = "CreateNamespace" => edits[i].name \in NewNamespaces
      /\ \A n \in NewNamespaces :
            /\ Cardinality({i \in 1..Len(edits) : edits[i] = CreateNamespace(n)}) = 1
            /\ \A i, j \in 1..Len(edits) :
                  (edits[i] = CreateNamespace(n) /\ i # j /\ EditNamespace(edits[j]) = n)
                     => i < j
            /\ \A t \in Values(to.namespaces[n].tables) :
                  /\ Cardinality({i \in 1..Len(edits) : edits[i] = CreateTable(t)}) = 1
                  /\ Cardinality({i \in 1..Len(edits) :
                                     /\ edits[i].kind = "CreateTable"
                                     /\ edits[i].table.namespace = n
                                     /\ edits[i].table.uuid = t.uuid}) = 1
            /\ \A es \in DiffOneNamespace(from, to, n) :
                  \A i \in 1..Len(es) : es[i].kind # "Ddl"

\* diff has run on a pair whose to has a namespace from lacks, holding a table with two columns
C11_Witness ==
    /\ pc = "diffed"
    /\ \E n \in NewNamespaces :
          /\ \E t \in Values(to.namespaces[n].tables) : Len(t.columns) = 2
          /\ \E i \in 1..Len(edits) : edits[i] = CreateNamespace(n)

(***************************************************************************)
(* C12: table create/drop decisions depend only on uuid.  For each         *)
(* namespace, diff emits exactly one DropTable for each uuid in from and   *)
(* not in to, exactly one CreateTable for each uuid in to and not in from, *)
(* and no DropTable/CreateTable for a uuid in both; a table that keeps its *)
(* name but changes uuid yields a DropTable followed by a CreateTable, and *)
(* a namespace without a common uuid yields no alteration.                 *)
(***************************************************************************)
TableIdsIn(c, n) == IF n \in DOMAIN c.namespaces THEN TableIds(c.namespaces[n]) ELSE {}

IsTableEdit(e, kind, n, u) ==
    e.kind = kind /\ e.table.namespace = n /\ e.table.uuid = u

\* the table names of namespace n whose table has a uuid only from knows in from
\* and a uuid only to knows in to
ReidentifiedNames(n) ==
    {k \in (DOMAIN from.namespaces[n].tables) \cap (DOMAIN to.namespaces[n].tables) :
        /\ from.namespaces[n].tables[k].uuid \notin TableIdsIn(to, n)
        /\ to.namespaces[n].tables[k].uuid \notin TableIdsIn(from, n)}

C12_TableDecisionsByUuid ==
    Diffed =>
      \A n \in (DOMAIN from.namespaces) \cup (DOMAIN to.namespaces) :
         LET a_ids == TableIdsIn(from, n)
             b_ids == TableIdsIn(to, n)
         IN /\ \A u \in a_ids \ b_ids :
                  Cardinality({i \in 1..Len(edits) : IsTableEdit(edits[i], "DropTable", n, u)}) = 1
            /\ \A u \in b_ids \ a_ids :
                  Cardinality({i \in 1..Len(edits) : IsTableEdit(edits[i], "CreateTable", n, u)}) = 1
            /\ \A i \in 1..Len(edits) :
                  /\ (edits[i].kind = "DropTable" /\ edits[i].table.namespace = n)
                        => edits[i].table.uuid \in a_ids \ b_ids
                  /\ (edits[i].kind = "CreateTable" /\ edits[i].table.namespace = n)
                        => edits[i].table.uuid \in b_ids \ a_ids
            /\ n \in CommonNamespaces =>
                  /\ \A k \in ReidentifiedNames(n) :
                        \E i, j \in 1..Len(edits) :
                           /\ i < j
                           /\ edits[i] = DropTable(from.namespaces[n].tables[k])
                           /\ edits[j] = CreateTable(to.namespaces[n].tables[k])
                  /\ CommonTables(n) = {} =>
                        \A es \in DiffOneNamespace(from, to, n) :
                           \A i \in 1..Len(es) : es[i].kind # "Ddl"

\* diff has run on a pair in which a table keeps its name and changes its uuid
C12_Witness ==
    /\ pc = "diffed"
    /\ \E n \in CommonNamespaces :
          /\ ReidentifiedNames(n) # {}
          /\ \E i \in 1..Len(edits) : edits[i].kind = "DropTable"
          /\ \E i \in 1..Len(edits) : edits[i].kind = "CreateTable"

(***************************************************************************)
(* C13: for one table present in both catalogs, the edits emitted by       *)
(* diff_table are ordered: the rename-table edit (if any) first, then all  *)
(* drop-column edits, then all add-column edits, then the rename-column /  *)
(* alter-type edits of the columns whose uid is in both; a column whose    *)
(* name and type both changed yields both a rename-column and an           *)
(* alter-type edit.                                                        *)
(***************************************************************************)
OpRank(e) ==
    CASE e.stmt.operation.op = "RenameTable" -> 0
      [] e.stmt.operation.op = "DropColumn" -> 1
      [] e.stmt.operation.op = "AddColumn" -> 2
      [] OTHER -> 3

\* the columns of a and b with the same uid whose name and type both differ
RenamedRetypedColumns(a, b) ==
    {uid \in ColumnIds(a) \cap ColumnIds(b) :
        /\ get_column_by_uid(a, uid).name # get_column_by_uid(b, uid).name
        /\ get_column_by_uid(a, uid).data_type # get_column_by_uid(b, uid).data_type}

TableEditsOrdered(es, a, b) ==
    /\ \A i \in 1..Len(es) : es[i].kind = "Ddl"
    /\ \A i, j \in 1..Len(es) : i < j => OpRank(es[i]) <= OpRank(es[j])
    /\ Cardinality({i \in 1..Len(es) : OpRank(es[i]) = 0}) <= 1
    /\ \A i \in 1..Len(es) :
          /\ OpRank(es[i]) = 1 =>
                \E uid \in ColumnIds(a) \ ColumnIds(b) :
                   es[i].stmt.operation = DropColumn(identifier(get_column_by_uid(a, uid).name))
          /\ OpRank(es[i]) = 2 =>
                \E uid \in ColumnIds(b) \ ColumnIds(a) :
                   es[i].stmt.operation.column_def.name =
                      identifier(get_column_by_uid(b, uid).name)
          /\ OpRank(es[i]) = 3 =>
                \E uid \in ColumnIds(a) \cap ColumnIds(b) :
                   \/ es[i].stmt.operation =
                         RenameColumn(identifier(get_column_by_uid(a, uid).name),
                                      identifier(get_column_by_uid(b, uid).name))
                   \/ es[i].stmt.operation =
                         AlterColumn(identifier(get_column_by_uid(b, uid).name),
                                     get_column_by_uid(b, uid).data_type)
    /\ Cardinality({i \in 1..Len(es) : OpRank(es[i]) = 1})
          = Cardinality(ColumnIds(a) \ ColumnIds(b))
    /\ Cardinality({i \in 1..Len(es) : OpRank(es[i]) = 2})
          = Cardinality(ColumnIds(b) \ ColumnIds(a))
    /\ \A uid \in RenamedRetypedColumns(a, b) :
          LET old == get_column_by_uid(a, uid)
              new == get_column_by_uid(b, uid)
          IN /\ \E i \in 1..Len(es) :
                   ColumnOpIs(es[i], RenameColumn(identifier(old.name), identifier(new.name)))
             /\ \E i \in 1..Len(es) :
                   ColumnOpIs(es[i], AlterColumn(identifier(new.name), new.data_type))

\* from and to hold one namespace with one table each, the same by uuid, and nothing else
OnlyOneCommonTable(n, u) ==
    /\ DOMAIN from.namespaces = {n}
    /\ DOMAIN to.namespaces = {n}
    /\ TableIds(from.namespaces[n]) = {u}
    /\ TableIds(to.namespaces[n]) = {u}
    /\ HandlerNamesOf(from.namespaces[n]) = HandlerNamesOf(to.namespaces[n])

C13_TableEditOrder ==
    Diffed =>
      \A n \in CommonNamespaces : \A u \in CommonTables(n) :
         /\ \A es \in DiffTable(FromTable(n, u), ToTable(n, u)) :
               TableEditsOrdered(es, FromTable(n, u), ToTable(n, u))
         /\ OnlyOneCommonTable(n, u) =>
               TableEditsOrdered(edits, FromTable(n, u), ToTable(n, u))

\* diff has run on a table with a dropped column, an added column and a column
\* whose name and type both changed
C13_Witness ==
    /\ pc = "diffed"
    /\ \E n \in CommonNamespaces : \E u \in CommonTables(n) :
          /\ OnlyOneCommonTable(n, u)
          /\ ColumnIds(FromTable(n, u)) \ ColumnIds(ToTable(n, u)) # {}
          /\ ColumnIds(ToTable(n, u)) \ ColumnIds(FromTable(n, u)) # {}
          /\ RenamedRetypedColumns(FromTable(n, u), ToTable(n, u)) # {}
          /\ FromTable(n, u).name # ToTable(n, u).name
          /\ Len(edits) = 5

(***************************************************************************)
(* C14: for each namespace, diff emits exactly one DropHttpHandler for     *)
(* each handler name in from and not in to, exactly one ReplaceHttpHandler *)
(* for each handler name in to and not in from, the latter carrying the    *)
(* handler's complete definition as it is in to (namespace, name, body,    *)
(* policy reference); for a handler name in both it emits no edit, even    *)
(* when body or policy differ.                                             *)
(***************************************************************************)
HandlerNamesIn(c, n) ==
    IF n \in DOMAIN c.namespaces THEN HandlerNamesOf(c.namespaces[n]) ELSE {}

IsHandlerEdit(e, kind, n, h) ==
    e.kind = kind /\ e.handler.namespace = n /\ e.handler.name = h

C14_HandlerEdits ==
    Diffed =>
      \A n \in (DOMAIN from.namespaces) \cup (DOMAIN to.namespaces) :
         LET a_names == HandlerNamesIn(from, n)
             b_names == HandlerNamesIn(to, n)
         IN /\ \A h \in a_names \ b_names :
                  /\ Cardinality({i \in 1..Len(edits) :
                                     IsHandlerEdit(edits[i], "DropHttpHandler", n, h)}) = 1
                  /\ Cardinality({i \in 1..Len(edits) :
                                     IsHandlerEdit(edits[i], "ReplaceHttpHandler", n, h)}) = 0
            /\ \A h \in b_names \ a_names :
                  /\ Cardinality({i \in 1..Len(edits) :
                                     IsHandlerEdit(edits[i], "ReplaceHttpHandler", n, h)}) = 1
                  /\ Cardinality({i \in 1..Len(edits) :
                                     IsHandlerEdit(edits[i], "DropHttpHandler", n, h)}) = 0
                  /\ \A i \in 1..Len(edits) :
                        IsHandlerEdit(edits[i], "ReplaceHttpHandler", n, h) =>
                           edits[i].handler = get_http_handler_by_name(to.namespaces[n], h)
            /\ \A h \in a_names \cap b_names :
                  Cardinality({i \in 1..Len(edits) :
                                  \/ IsHandlerEdit(edits[i], "DropHttpHandler", n, h)
                                  \/ IsHandlerEdit(edits[i], "ReplaceHttpHandler", n, h)}) = 0

(***************************************************************************)
(* C15: for each namespace, diff treats authentication and authorization   *)
(* policies like handlers: a policy name present only in to yields exactly *)
(* one ReplaceAuthenticationPolicy / ReplaceAuthorizationPolicy edit, and  *)
(* a policy name present only in from yields exactly one                   *)
(* DropAuthenticationPolicy / DropAuthorizationPolicy edit.                *)
(***************************************************************************)
AuthenticationNamesIn(c, n) ==
    IF n \in DOMAIN c.namespaces
    THEN {p.name : p \in Values(c.namespaces[n].authentication_policies)}
    ELSE {}

AuthorizationNamesIn(c, n) ==
    IF n \in DOMAIN c.namespaces
    THEN {p.name : p \in Values(c.namespaces[n].authorization_policies)}
    ELSE {}

IsPolicyEdit(e, kind, n, name) ==
    e.kind = kind /\ e.policy.namespace = n /\ e.policy.name = name

C15_PolicyEdits ==
    Diffed =>
      \A n \in (DOMAIN from.namespaces) \cup (DOMAIN to.namespaces) :
         /\ \A name \in AuthenticationNamesIn(to, n) \ AuthenticationNamesIn(from, n) :
               Cardinality({i \in 1..Len(edits) :
                   IsPolicyEdit(edits[i], "ReplaceAuthenticationPolicy", n, name)}) = 1
         /\ \A name \in AuthenticationNamesIn(from, n) \ AuthenticationNamesIn(to, n) :
               Cardinality({i \in 1..Len(edits) :
                   IsPolicyEdit(edits[i], "DropAuthenticationPolicy", n, name)}) = 1
         /\ \A name \in AuthorizationNamesIn(to, n) \ AuthorizationNamesIn(from, n) :
               Cardinality({i \in 1..Len(edits) :
                   IsPolicyEdit(edits[i], "ReplaceAuthorizationPolicy", n, name)}) = 1
         /\ \A name \in AuthorizationNamesIn(from, n) \ AuthorizationNamesIn(to, n) :
               Cardinality({i \in 1..Len(edits) :
                   IsPolicyEdit(edits[i], "DropAuthorizationPolicy", n, name)}) = 1

(***************************************************************************)
(* C16: for a namespace present in from and absent from to, diff emits a   *)
(* drop edit for every table and every handler/policy of that namespace    *)
(* and no edit that removes the namespace itself; after applying the       *)
(* script the namespace is still a key of the working catalog, with all    *)
(* its maps empty.                                                         *)
(***************************************************************************)
RemovedNamespaces == (DOMAIN from.namespaces) \ (DOMAIN to.namespaces)

EditKinds ==
    {"CreateNamespace", "CreateTable", "DropTable", "ReplaceHttpHandler", "DropHttpHandler",
     "ReplaceAuthenticationPolicy", "DropAuthenticationPolicy",
     "ReplaceAuthorizationPolicy", "DropAuthorizationPolicy", "Ddl"}

C16_RemovedNamespace ==
    /\ Diffed =>
         /\ \A i \in 1..Len(edits) : edits[i].kind \in EditKinds
         /\ \A n \in RemovedNamespaces :
               /\ \A u \in TableIdsIn(from, n) :
                     \E i \in 1..Len(edits) : IsTableEdit(edits[i], "DropTable", n, u)
               /\ \A h \in HandlerNamesIn(from, n) :
                     \E i \in 1..Len(edits) : IsHandlerEdit(edits[i], "DropHttpHandler", n, h)
               /\ \A name \in AuthenticationNamesIn(from, n) :
                     \E i \in 1..Len(edits) :
                        IsPolicyEdit(edits[i], "DropAuthenticationPolicy", n, name)
               /\ \A name \in AuthorizationNamesIn(from, n) :
                     \E i \in 1..Len(edits) :
                        IsPolicyEdit(edits[i], "DropAuthorizationPolicy", n, name)
    /\ pc = "applied" =>
         \A n \in RemovedNamespaces :
            /\ n \in DOMAIN work.namespaces
            /\ work.namespaces[n] = DefaultNamespace(n)

\* the part of C16 that does not involve policies: tables and handlers of a removed
\* namespace are dropped and the namespace stays, with empty table and handler maps
C16_TablesAndHandlersDropped ==
    /\ Diffed =>
         \A n \in RemovedNamespaces :
            /\ \A u \in TableIdsIn(from, n) :
                  \E i \in 1..Len(edits) : IsTableEdit(edits[i], "DropTable", n, u)
            /\ \A h \in HandlerNamesIn(from, n) :
                  \E i \in 1..Len(edits) : IsHandlerEdit(edits[i], "DropHttpHandler", n, h)
    /\ pc = "applied" =>
         \A n \in RemovedNamespaces :
            /\ n \in DOMAIN work.namespaces
            /\ work.namespaces[n].tables = EmptyMap
            /\ work.namespaces[n].http_handlers = EmptyMap

(***************************************************************************)
(* Catalog::apply called with any edit on any catalog                      *)
(* (catalog/src/lib.rs:25-96).  A panic ends the process.                  *)
(***************************************************************************)
EditTables ==
    {Table("n1", u, name, <<>>) : u \in Uuids, name \in TableNames}
    \cup {Table("n2", "U1", name, <<>>) : name \in TableNames}

EditHandlers == {HttpHandler("n1", h, body, "p") : h \in HandlerNames, body \in Bodies}

EditAuthenticationPolicies ==
    {AuthenticationPolicy("n1", name, "Anonymous") : name \in AuthnNames}

EditAuthorizationPolicies ==
    {AuthorizationPolicy("n1", name, "true") : name \in AuthzNames}

AnyEdits ==
    {CreateNamespace(n) : n \in NsNames}
    \cup {CreateTable(t) : t \in EditTables} \cup {DropTable(t) : t \in EditTables}
    \cup {ReplaceHttpHandler(h) : h \in EditHandlers}
    \cup {DropHttpHandler(h) : h \in EditHandlers}
    \cup {ReplaceAuthenticationPolicy(q) : q \in EditAuthenticationPolicies}
    \cup {DropAuthenticationPolicy(q) : q \in EditAuthenticationPolicies}
    \cup {ReplaceAuthorizationPolicy(q) : q \in EditAuthorizationPolicies}
    \cup {DropAuthorizationPolicy(q) : q \in EditAuthorizationPolicies}
    \cup {Ddl(AlterTable(ObjectName(<<identifier("t")>>),
                         RenameTable(ObjectName(<<identifier("s")>>))))}

InitApply ==
    /\ IdleDiff
    /\ IdleEnsemble
    /\ IdleCompile
    /\ IdleConductor
    /\ IdleParse
    /\ IdleServer
    /\ catalog = DefaultCatalog
    /\ before = DefaultCatalog
    /\ edit = NoEdit
    /\ status = "none"

CatalogApply(e) ==
    /\ status # "panic"
    /\ LET r == Apply(catalog, e)
       IN /\ catalog' = r.catalog
          /\ status' = r.status
    /\ before' = catalog
    /\ edit' = e
    /\ UNCHANGED <<diffVars, ensembleVars, compileVars, conductorVars, parseVars, serverVars>>

NextApply == \E e \in AnyEdits : CatalogApply(e)

SpecApply == InitApply /\ [][NextApply]_vars

(***************************************************************************)
(* C6: apply of any edit other than CreateNamespace whose namespace is not *)
(* in the catalog returns a NamespaceNotFound error (it neither panics nor *)
(* silently succeeds) and leaves the catalog unchanged.                    *)
(***************************************************************************)
C6_NamespaceNotFound ==
    (/\ edit.kind \notin {"none", "CreateNamespace", "Ddl"}
     /\ EditNamespace(edit) \notin DOMAIN before.namespaces)
    => (status = "NamespaceNotFound" /\ catalog = before)

(***************************************************************************)
(* EnsembleX (ensemble-x/src/lib.rs): apply stages, commit executes the    *)
(* staged physical actions and then writes the catalog record.             *)
(***************************************************************************)
\* serde_json::to_vec(&self.catalog) / serde_json::from_slice
Json(c) == [found |-> TRUE, json |-> c]

Decode(r) == r.json

\* EnsembleX::new: the catalog a successfully constructed EnsembleX starts with
EnsembleNew(r) == IF r.found THEN Decode(r) ELSE DefaultCatalog

\* serde_json::from_slice succeeds on the bytes that commit wrote
Decodable(r) == "json" \in DOMAIN r

\* bytes that are not the JSON of a catalog
Undecodable == [found |-> TRUE, bytes |-> "not a catalog"]

\* the outcomes of storage.get(CATALOG_PATH) and of reading the bytes of its result
StorageGet(r, fault) ==
    IF fault = "get" THEN [result |-> "Err", error |-> "Generic"]
    ELSE IF ~r.found THEN [result |-> "Err", error |-> "NotFound"]
    ELSE IF fault = "bytes" THEN [result |-> "Ok", bytes |-> "Err"]
    ELSE [result |-> "Ok", bytes |-> "Ok"]

\* faulty variant: every failure of storage.get is taken for an absent record
New_AnyErrorIsAbsent(r, get) ==
    IF get.result = "Ok"
    THEN IF get.bytes = "Err" THEN [result |-> "Err"]
         ELSE IF Decodable(r)
         THEN [result |-> "Ok", catalog |-> EnsembleNew(r),
               pending_actions |-> <<>>]
         ELSE [result |-> "Err"]
    ELSE [result |-> "Ok", catalog |-> DefaultCatalog, pending_actions |-> <<>>]

\* EnsembleX::new on a store whose record is r
New(r, get) ==
    IF get.result = "Ok"
    THEN IF get.bytes = "Err" THEN [result |-> "Err"]
         ELSE IF Decodable(r)
         THEN [result |-> "Ok", catalog |-> EnsembleNew(r),
               pending_actions |-> <<>>]
         ELSE [result |-> "Err"]
    ELSE IF get.error = "NotFound"
    THEN [result |-> "Ok", catalog |-> DefaultCatalog, pending_actions |-> <<>>]
    ELSE [result |-> "Err"]

\* map_type
MapType(dt) ==
    CASE dt = "INTEGER" -> "integer"
      [] dt = "TEXT" -> "string"
      [] OTHER -> "todo!"

\* store_for_table / store_for_namespace + list(Some(name)): the prefix namespace/name
Location(namespace, name) == <<namespace, name>>

CreateTableAction(table) ==
    [action |-> "CreateTable",
     table_name |-> table.name,
     columns |-> [i \in 1..Len(table.columns) |->
                     [name |-> table.columns[i].name,
                      type |-> MapType(table.columns[i].data_type),
                      nullable |-> TRUE,
                      metadata |-> table.columns[i].uid]],
     metadata |-> table.uuid,
     location |-> Location(table.namespace, table.name)]

DropTableAction(table) ==
    [action |-> "DropTable", namespace |-> table.namespace, name |-> table.name]

\* EnsembleX::apply: the catalog and the queue it leaves, and how it ends
\* faulty variant: a DropTable edit is applied to the catalog and no action is staged
EnsembleApply_DropNotStaged(c, pending, e) ==
    IF e.kind = "CreateTable"
    THEN IF \E i \in 1..Len(e.table.columns) : MapType(e.table.columns[i].data_type) = "todo!"
         THEN [status |-> "panic", catalog |-> c, pending_actions |-> pending]
         ELSE LET r == Apply(c, e)
              IN IF r.status = "Ok"
                 THEN [status |-> "Ok", catalog |-> r.catalog,
                       pending_actions |-> Append(pending, CreateTableAction(e.table))]
                 ELSE [status |-> r.status, catalog |-> r.catalog, pending_actions |-> pending]
    ELSE LET r == Apply(c, e)
         IN [status |-> r.status, catalog |-> r.catalog, pending_actions |-> pending]

EnsembleApply(c, pending, e) ==
    IF e.kind = "CreateTable"
    THEN IF \E i \in 1..Len(e.table.columns) : MapType(e.table.columns[i].data_type) = "todo!"
         THEN [status |-> "panic", catalog |-> c, pending_actions |-> pending]
         ELSE LET r == Apply(c, e)
              IN IF r.status = "Ok"
                 THEN [status |-> "Ok", catalog |-> r.catalog,
                       pending_actions |-> Append(pending, CreateTableAction(e.table))]
                 ELSE [status |-> r.status, catalog |-> r.catalog, pending_actions |-> pending]
    ELSE IF e.kind = "DropTable"
    THEN LET r == Apply(c, e)
         IN IF r.status = "Ok"
            THEN [status |-> "Ok", catalog |-> r.catalog,
                  pending_actions |-> Append(pending, DropTableAction(e.table))]
            ELSE [status |-> r.status, catalog |-> r.catalog, pending_actions |-> pending]
    ELSE LET r == Apply(c, e)
         IN [status |-> r.status, catalog |-> r.catalog, pending_actions |-> pending]

\* the effect of one physical action that succeeds
Execute(a, objs) ==
    IF a.action = "CreateTable" THEN objs \cup {a.location}
    ELSE objs \ {Location(a.namespace, a.name)}

\* faulty variant: the actions are executed from the last to the first
RunActions_Reversed(actions, objs) ==
    LET Target(a) == IF a.action = "CreateTable" THEN a.location
                     ELSE Location(a.namespace, a.name)
        touched == {Target(actions[i]) : i \in 1..Len(actions)}
        First(loc) == CHOOSE i \in 1..Len(actions) :
                         /\ Target(actions[i]) = loc
                         /\ \A j \in 1..(i - 1) : Target(actions[j]) # loc
    IN (objs \ touched) \cup {loc \in touched : actions[First(loc)].action = "CreateTable"}

RECURSIVE RunActions(_, _)
RunActions(actions, objs) ==
    IF actions = <<>> THEN objs
    ELSE RunActions(Tail(actions), Execute(Head(actions), objs))

\* faulty variant: the catalog record is written before the actions are executed
CommitOutcome_WriteFirst(c, actions, rec, objs, fail_at) ==
    LET n == Len(actions)
        done == IF fail_at \in 1..n THEN fail_at - 1 ELSE n
    IN [result |-> IF fail_at = 0 THEN "Ok" ELSE "Err",
        executed |-> done,
        record |-> IF fail_at = n + 1 THEN rec ELSE Json(c),
        objects |-> RunActions(SubSeq(actions, 1, done), objs)]

\* EnsembleX::commit on the taken actions: action fail_at fails (0: nothing fails,
\* Len(actions) + 1: the put of the catalog record fails)
CommitOutcome(c, actions, rec, objs, fail_at) ==
    LET n == Len(actions)
        done == IF fail_at \in 1..n THEN fail_at - 1 ELSE n
    IN [result |-> IF fail_at = 0 THEN "Ok" ELSE "Err",
        executed |-> done,
        record |-> IF fail_at = 0 THEN Json(c) ELSE rec,
        objects |-> RunActions(SubSeq(actions, 1, done), objs)]

\* faulty variant: the queue keeps the actions that commit takes
TakeActions_KeepQueue(pending) == [taken |-> pending, left |-> pending]

\* std::mem::take(&mut self.pending_actions): the taken actions and the queue left behind
TakeActions(pending) == [taken |-> pending, left |-> <<>>]

EnsembleTables ==
    {Table("n1", "U1", "t", <<Column(1, "x", "INTEGER")>>), Table("n1", "U2", "s", <<>>)}

EnsembleEdits ==
    {CreateNamespace("n1")}
    \cup {CreateTable(t) : t \in EnsembleTables}
    \cup {DropTable(t) : t \in EnsembleTables}
    \cup {ReplaceHttpHandler(h) : h \in EditHandlers}

PersistedRecords == {Absent, Json(OneNamespace(DefaultNamespace("n1"))), Undecodable}

StorageFaults == {"none", "get", "bytes"}

InitEnsemble ==
    /\ IdleDiff
    /\ IdleCompile
    /\ IdleConductor
    /\ IdleParse
    /\ IdleServer
    /\ record \in PersistedRecords
    /\ \E fault \in StorageFaults :
          LET get == StorageGet(record, fault)
          IN  new_ret = [read |-> record, get |-> get, ret |-> New(record, get)]
    /\ catalog = IF new_ret.ret.result = "Ok" THEN new_ret.ret.catalog ELSE DefaultCatalog
    /\ pending_actions = <<>>
    /\ objects = {}
    /\ commit_ret = NoCommit
    /\ before = catalog
    /\ edit = NoEdit
    /\ status = "none"

EnsApply(e) ==
    /\ new_ret.ret.result = "Ok"
    /\ status # "panic"
    /\ e.kind \in {"CreateTable", "DropTable"} => Len(pending_actions) < MaxPending
    /\ LET r == EnsembleApply(catalog, pending_actions, e)
       IN /\ catalog' = r.catalog
          /\ pending_actions' = r.pending_actions
          /\ status' = r.status
    /\ before' = catalog
    /\ edit' = e
    /\ commit_ret' = NoCommit
    /\ UNCHANGED <<diffVars, record, objects, new_ret, compileVars, conductorVars, parseVars, serverVars>>

Commit ==
    /\ new_ret.ret.result = "Ok"
    /\ status # "panic"
    /\ \E fail_at \in 0..(Len(pending_actions) + 1) :
          LET actions == TakeActions(pending_actions).taken
              out == CommitOutcome(catalog, actions, record, objects, fail_at)
          IN /\ record' = out.record
             /\ objects' = out.objects
             /\ commit_ret' = [result |-> out.result, staged |-> actions,
                               executed |-> out.executed, record_before |-> record]
    /\ pending_actions' = TakeActions(pending_actions).left
    /\ before' = catalog
    /\ edit' = NoEdit
    /\ status' = "none"
    /\ UNCHANGED <<diffVars, catalog, new_ret, compileVars, conductorVars, parseVars, serverVars>>

NextEnsemble == (\E e \in EnsembleEdits : EnsApply(e)) \/ Commit

SpecEnsemble == InitEnsemble /\ [][NextEnsemble]_vars

(***************************************************************************)
(* C3: commit executes every physical action staged since the previous     *)
(* commit and writes the catalog record only if all of them succeeded;     *)
(* when a staged action fails, the call returns the error and does not     *)
(* write the record.                                                       *)
(***************************************************************************)
C3_CommitWritesOnlyAfterAllActions ==
    commit_ret.result # "none" =>
      /\ commit_ret.result = "Ok" =>
            /\ commit_ret.executed = Len(commit_ret.staged)
            /\ record = Json(catalog)
      /\ commit_ret.executed < Len(commit_ret.staged) =>
            /\ commit_ret.result = "Err"
            /\ record = commit_ret.record_before
      /\ record # commit_ret.record_before => commit_ret.executed = Len(commit_ret.staged)

\* a commit of two staged actions whose second action failed
C3_Witness ==
    /\ commit_ret.result = "Err"
    /\ Len(commit_ret.staged) = 2
    /\ commit_ret.executed = 1
    /\ Json(catalog) # record

(***************************************************************************)
(* The score compiler (score/src/compiler.rs) and the statements it reads  *)
(* (score/src/parser.rs:15-54).  A call returns Ok(value), Err(error) or   *)
(* aborts the thread (unreachable!(), Option::unwrap on None).             *)
(***************************************************************************)
NamespaceDecl(name) == [stmt |-> "NamespaceDecl", name |-> name]

ColumnDef(uid, name, data_type) ==
    [uid |-> uid, inner |-> [name |-> [value |-> name], data_type |-> data_type]]

TableDecl(name, uuid, columns) ==
    [stmt |-> "TableDecl", name |-> name, uuid |-> uuid, columns |-> columns]

HttpHandlerDecl(name, policy, body) ==
    [stmt |-> "HttpHandlerDecl", name |-> name, policy |-> policy, body |-> body]

AuthenticationPolicyDecl(name, typ) ==
    [stmt |-> "AuthenticationPolicyDecl", name |-> name, typ |-> typ]

AuthorizationPolicyDecl(name, permissive_expr) ==
    [stmt |-> "AuthorizationPolicyDecl", name |-> name, permissive_expr |-> permissive_expr]

ScoreFile(path, statements) == [path |-> path, statements |-> statements]

ScorePkg(path, files) == [path |-> path, files |-> files]

\* ScoreError::CompileError { error, path } and ScoreError::Error(String); a
\* message built by format! is the sequence of its pieces
CompileError(error, path) == [variant |-> "CompileError", error |-> error, path |-> path]

Error(message) == [variant |-> "Error", message |-> message]

OkValue(v) == [status |-> "Ok", value |-> v]

Err(e) == [status |-> "Err", error |-> e]

Aborted == [status |-> "panic"]

\* the parsed SQL statement of a handler body and its Display form
SqlStatements == {[select |-> 1], [select |-> 2]}

SqlToString(st) == IF st.select = 1 THEN "SELECT 1" ELSE "SELECT 2"

ColumnConflict(column_names, column_uids, col) ==
    col.inner.name.value \in column_names \/ col.uid \in column_uids

\* the loop over table_decl.columns; table_columns are the columns pushed so far
RECURSIVE CompileColumns(_, _, _, _)
CompileColumns(cols, column_names, column_uids, table_columns) ==
    IF cols = <<>> THEN OkValue(table_columns)
    ELSE LET col == Head(cols)
         IN IF ColumnConflict(column_names, column_uids, col)
            THEN Err(Error(<<"conflicting column declaration ", col.inner.name.value,
                             " ", col.uid>>))
            ELSE CompileColumns(Tail(cols),
                                column_names \cup {col.inner.name.value},
                                column_uids \cup {col.uid},
                                Append(table_columns,
                                       Column(col.uid, col.inner.name.value,
                                              col.inner.data_type)))

\* faulty variant: only the table name is looked up, a reused uuid is not noticed
TableConflict_NameOnly(st, table_decl) == table_decl.name \in st.table_names

TableConflict(st, table_decl) ==
    table_decl.name \in st.table_names \/ table_decl.uuid \in st.table_uuids

\* faulty variant: the table is inserted as it was built, before its columns were pushed
CompileTableDecl_NoColumns(st, table_decl, path) ==
    LET columns == CompileColumns(table_decl.columns, {}, {}, <<>>)
    IN IF columns.status # "Ok" THEN columns
       ELSE IF TableConflict(st, table_decl)
       THEN Err(CompileError(<<"conflicting table declaration: ", table_decl.name>>, path))
       ELSE OkValue([ns |-> [st.ns EXCEPT !.tables =
                                 MapInsert(@, table_decl.name,
                                           Table(st.ns.name, table_decl.uuid,
                                                 table_decl.name, <<>>))],
                     table_names |-> st.table_names \cup {table_decl.name},
                     table_uuids |-> st.table_uuids \cup {table_decl.uuid}])

\* st holds the namespace under construction and the two HashSets of compile_pkg
CompileTableDecl(st, table_decl, path) ==
    LET columns == CompileColumns(table_decl.columns, {}, {}, <<>>)
    IN IF columns.status # "Ok" THEN columns
       ELSE IF TableConflict(st, table_decl)
       THEN Err(CompileError(<<"conflicting table declaration: ", table_decl.name>>, path))
       ELSE OkValue([ns |-> [st.ns EXCEPT !.tables =
                                 MapInsert(@, table_decl.name,
                                           Table(st.ns.name, table_decl.uuid,
                                                 table_decl.name, columns.value))],
                     table_names |-> st.table_names \cup {table_decl.name},
                     table_uuids |-> st.table_uuids \cup {table_decl.uuid}])

\* HttpHandler { namespace, name, body: st.to_string() }
CompileHttpHandlerDecl(st, handler_decl, path) ==
    IF handler_decl.name \in DOMAIN st.ns.http_handlers
    THEN Err(CompileError(<<"conflicting http handler declaration: ", handler_decl.name>>,
                          path))
    ELSE OkValue([st EXCEPT !.ns.http_handlers =
                     MapInsert(@, handler_decl.name,
                               [namespace |-> st.ns.name,
                                name |-> handler_decl.name,
                                body |-> SqlToString(handler_decl.body)])])

CompileStatement(st, stmt, path) ==
    CASE stmt.stmt = "TableDecl" -> CompileTableDecl(st, stmt, path)
      [] stmt.stmt = "HttpHandlerDecl" -> CompileHttpHandlerDecl(st, stmt, path)
      [] OTHER -> Aborted

RECURSIVE CompileStatements(_, _, _)
CompileStatements(st, stmts, path) ==
    IF stmts = <<>> THEN OkValue(st)
    ELSE LET r == CompileStatement(st, Head(stmts), path)
         IN IF r.status # "Ok" THEN r ELSE CompileStatements(r.value, Tail(stmts), path)

\* one round of the loop over pkg.files
CompileFile(st, file, namespace_name) ==
    IF file.statements # <<>> /\ Head(file.statements).stmt = "NamespaceDecl"
    THEN IF Head(file.statements).name # namespace_name
         THEN Err(Error(<<"conflicting namespace declaration ", Head(file.statements).name,
                          " and ", namespace_name, " in the same package">>))
         ELSE CompileStatements(st, Tail(file.statements), file.path)
    ELSE Err(Error(<<"expected namespace declaration">>))

RECURSIVE CompileFiles(_, _, _)
CompileFiles(st, files, namespace_name) ==
    IF files = <<>> THEN OkValue(st)
    ELSE LET r == CompileFile(st, Head(files), namespace_name)
         IN IF r.status # "Ok" THEN r ELSE CompileFiles(r.value, Tail(files), namespace_name)

compile_pkg(p) ==
    IF p.files[1].statements = <<>> THEN Aborted
    ELSE IF Head(p.files[1].statements).stmt # "NamespaceDecl"
    THEN Err(Error(<<"expected namespace declaration">>))
    ELSE LET namespace_name == Head(p.files[1].statements).name
             r == CompileFiles([ns |-> DefaultNamespace(namespace_name),
                                table_names |-> {}, table_uuids |-> {}],
                               p.files, namespace_name)
         IN IF r.status = "Ok" THEN OkValue(r.value.ns) ELSE r

compile(p) ==
    IF p.files = <<>> THEN OkValue(DefaultCatalog)
    ELSE LET r == compile_pkg(p)
         IN IF r.status = "Ok"
            THEN OkValue(Catalog(MapInsert(DefaultCatalog.namespaces, r.value.name, r.value)))
            ELSE r

(***************************************************************************)
(* Compilation units as ScoreParser::parse returns them: every file starts *)
(* with its NamespaceDecl, followed by declarations.                       *)
(***************************************************************************)
FilePaths == <<"a.score", "b.score", "c.score">>

\* column lists of a declaration: none, one column, and every second column
\* next to it (same uid, same name, both, neither)
DeclColumnLists ==
    {<<>>, <<ColumnDef(1, "x", "INTEGER")>>} \cup
    {<<ColumnDef(1, "x", "INTEGER"), ColumnDef(uid, name, "TEXT")>> :
        uid \in Uids, name \in ColNames}

TableDecls ==
    {TableDecl("t", "U1", columns) : columns \in DeclColumnLists} \cup
    {TableDecl(name, uuid, <<ColumnDef(1, "x", "INTEGER")>>) :
        name \in TableNames, uuid \in Uuids}

Decls ==
    TableDecls
    \cup {HttpHandlerDecl(h, policy, body) :
             h \in HandlerNames, policy \in PolicyRefs, body \in SqlStatements}
    \cup {AuthenticationPolicyDecl(name, "anonymous") : name \in AuthnNames}
    \cup {AuthorizationPolicyDecl(name, "true") : name \in AuthzNames}

\* the declarations ds[j] that g sends to file i (g is non-decreasing)
FileDecls(ds, g, i) ==
    LET lo == Cardinality({j \in 1..Len(ds) : g[j] < i})
        cnt == Cardinality({j \in 1..Len(ds) : g[j] = i})
    IN SubSeq(ds, lo + 1, lo + cnt)

\* the ways to deal k declarations, in order, to n files
Deals(k, n) ==
    {f \in [1..k -> 1..n] : \A j1, j2 \in 1..k : j1 < j2 => f[j1] <= f[j2]}

\* the unit whose file i declares namespace names[i] and holds the declarations
\* of ds that g deals to it
PkgOf(names, ds, g) ==
    ScorePkg("score",
             [i \in 1..Len(names) |->
                 ScoreFile(FilePaths[i], <<NamespaceDecl(names[i])>> \o FileDecls(ds, g, i))])

InitCompile ==
    /\ IdleDiff
    /\ IdleApply
    /\ IdleEnsemble
    /\ IdleConductor
    /\ IdleParse
    /\ IdleServer
    /\ \E n \in 0..Len(FilePaths), k \in 0..MaxDecls :
          \E names \in [1..n -> NsNames], ds \in [1..k -> Decls], g \in Deals(k, n) :
             pkg = PkgOf(names, ds, g)
    /\ compile_ret = NotCompiled

\* Score::catalog hands the parsed files to the compiler (score/src/lib.rs:65-67)
DoCompile ==
    /\ compile_ret = NotCompiled
    /\ compile_ret' = compile(pkg)
    /\ UNCHANGED <<pkg, diffVars, applyVars, ensembleVars, conductorVars, parseVars, serverVars>>

NextCompile == DoCompile

SpecCompile == InitCompile /\ [][NextCompile]_vars

Compiled == compile_ret.status # "none"

(***************************************************************************)
(* Helpers for stating properties of a compilation unit.                   *)
(***************************************************************************)
\* the positions <<file, statement>> of the declarations of pkg
DeclPositions ==
    {p \in (1..Len(pkg.files)) \X (1..(MaxDecls + 1)) :
        p[2] >= 2 /\ p[2] <= Len(pkg.files[p[1]].statements)}

DeclAt(p) == pkg.files[p[1]].statements[p[2]]

\* p comes before q in the statement stream of the unit
Before(p, q) == p[1] < q[1] \/ (p[1] = q[1] /\ p[2] < q[2])

TablePositions == {p \in DeclPositions : DeclAt(p).stmt = "TableDecl"}

\* a TABLE declaration that repeats the name or the uuid of an earlier one
RepeatedTables ==
    {q \in TablePositions :
        \E p \in TablePositions :
           /\ Before(p, q)
           /\ (DeclAt(p).name = DeclAt(q).name \/ DeclAt(p).uuid = DeclAt(q).uuid)}

HasColumnConflict(table_decl) ==
    \E i, j \in 1..Len(table_decl.columns) :
       /\ i < j
       /\ \/ table_decl.columns[i].uid = table_decl.columns[j].uid
          \/ table_decl.columns[i].inner.name.value = table_decl.columns[j].inner.name.value

ColumnConflictTables == {p \in TablePositions : HasColumnConflict(DeclAt(p))}

OneNamespaceName ==
    \A f, g \in 1..Len(pkg.files) :
       Head(pkg.files[f].statements).name = Head(pkg.files[g].statements).name

OnlyTablesAndHandlers ==
    \A p \in DeclPositions : DeclAt(p).stmt \in {"TableDecl", "HttpHandlerDecl"}

(***************************************************************************)
(* C17: compile fails with a CompileError that names the conflicting       *)
(* declaration and the file containing it, and produces no catalog,        *)
(* whenever two TABLE declarations of the compilation unit (in the same    *)
(* file or in different files) share a name or share a uuid, or two        *)
(* columns of one TABLE declaration share a name or share a uid.  Stated   *)
(* for units whose files agree on the namespace and that hold only table   *)
(* and handler declarations.                                               *)
(***************************************************************************)
C17_ConflictIsCompileError ==
    (/\ Compiled
     /\ OneNamespaceName
     /\ OnlyTablesAndHandlers
     /\ RepeatedTables \cup ColumnConflictTables # {})
    => /\ compile_ret.status = "Err"
       /\ compile_ret.error.variant = "CompileError"
       /\ \E p \in RepeatedTables \cup ColumnConflictTables :
             /\ compile_ret.error.path = pkg.files[p[1]].path
             /\ compile_ret.error.error[2] = DeclAt(p).name

\* the table half of C17: with no column conflict in the unit, a repeated table
\* name or uuid ends the call with a CompileError naming the table and its file
C17_TableConflictIsCompileError ==
    (/\ Compiled
     /\ OneNamespaceName
     /\ OnlyTablesAndHandlers
     /\ ColumnConflictTables = {}
     /\ RepeatedTables # {})
    => /\ compile_ret.status = "Err"
       /\ compile_ret.error.variant = "CompileError"
       /\ \E p \in RepeatedTables :
             /\ compile_ret.error.path = pkg.files[p[1]].path
             /\ compile_ret.error.error[2] = DeclAt(p).name

(***************************************************************************)
(* C18: when the files of one compilation unit do not all declare the same *)
(* namespace name, compile fails with a CompileError that identifies both  *)
(* conflicting names and the offending file, regardless of which position  *)
(* the deviating file has in the unit.  Stated for units whose             *)
(* declarations are tables and handlers without conflicts.                 *)
(***************************************************************************)
HandlerPositions == {p \in DeclPositions : DeclAt(p).stmt = "HttpHandlerDecl"}

RepeatedHandlers ==
    {q \in HandlerPositions :
        \E p \in HandlerPositions : Before(p, q) /\ DeclAt(p).name = DeclAt(q).name}

NoDeclarationConflict ==
    /\ OnlyTablesAndHandlers
    /\ RepeatedTables = {}
    /\ ColumnConflictTables = {}
    /\ RepeatedHandlers = {}

DeclaredNamespaceNames == {Head(pkg.files[f].statements).name : f \in 1..Len(pkg.files)}

\* the pieces of the error's text
ErrorPieces(e) ==
    IF e.variant = "CompileError" THEN {e.error[i] : i \in 1..Len(e.error)}
    ELSE {e.message[i] : i \in 1..Len(e.message)}

C18_NamespaceMismatch ==
    (Compiled /\ NoDeclarationConflict /\ ~OneNamespaceName)
    => /\ compile_ret.status = "Err"
       /\ DeclaredNamespaceNames \subseteq ErrorPieces(compile_ret.error)
       /\ compile_ret.error.variant = "CompileError"
       /\ \E f \in 1..Len(pkg.files) : compile_ret.error.path = pkg.files[f].path

\* what the call does return on a namespace mismatch: an error of the plain Error
\* variant whose text holds the two names
C18_NamespaceMismatchIsError ==
    (Compiled /\ NoDeclarationConflict /\ ~OneNamespaceName)
    => /\ compile_ret.status = "Err"
       /\ compile_ret.error.variant = "Error"
       /\ DeclaredNamespaceNames \subseteq ErrorPieces(compile_ret.error)

(***************************************************************************)
(* C19: every catalog returned successfully by compile satisfies the       *)
(* snapshot invariants: each namespace's map key equals its name field,    *)
(* table uuids and table names are each unique within the namespace,       *)
(* column uids and column names are each unique within their table, and    *)
(* handler names are unique within the namespace.                          *)
(***************************************************************************)
UniqueColumns(t) ==
    \A i, j \in 1..Len(t.columns) :
       i # j => /\ t.columns[i].uid # t.columns[j].uid
                /\ t.columns[i].name # t.columns[j].name

SnapshotInvariants(c) ==
    \A n \in DOMAIN c.namespaces :
       LET ns == c.namespaces[n]
       IN /\ ns.name = n
          /\ \A k1, k2 \in DOMAIN ns.tables :
                k1 # k2 => /\ ns.tables[k1].uuid # ns.tables[k2].uuid
                           /\ ns.tables[k1].name # ns.tables[k2].name
          /\ \A k \in DOMAIN ns.tables :
                /\ ns.tables[k].name = k
                /\ ns.tables[k].namespace = n
                /\ UniqueColumns(ns.tables[k])
          /\ \A k \in DOMAIN ns.http_handlers :
                ns.http_handlers[k].name = k /\ ns.http_handlers[k].namespace = n
          /\ \A k1, k2 \in DOMAIN ns.http_handlers :
                k1 # k2 => ns.http_handlers[k1].name # ns.http_handlers[k2].name

C19_CompiledCatalogInvariants ==
    (Compiled /\ compile_ret.status = "Ok") => SnapshotInvariants(compile_ret.value)

\* compile returned a catalog with two tables, one of them with two columns
C19_Witness ==
    /\ compile_ret.status = "Ok"
    /\ \E n \in DOMAIN compile_ret.value.namespaces :
          LET ns == compile_ret.value.namespaces[n]
          IN /\ Cardinality(DOMAIN ns.tables) = 2
             /\ \E k \in DOMAIN ns.tables : Len(ns.tables[k].columns) = 2

(***************************************************************************)
(* C20: compiling a unit that contains an AuthenticationPolicyDecl or      *)
(* AuthorizationPolicyDecl completes and returns a catalog whose namespace *)
(* has that policy, keyed by its name, in the authentication_policies or   *)
(* authorization_policies map respectively.  Stated for units whose files  *)
(* agree on the namespace and whose tables and handlers do not conflict.   *)
(***************************************************************************)
PolicyPositions ==
    {p \in DeclPositions :
        DeclAt(p).stmt \in {"AuthenticationPolicyDecl", "AuthorizationPolicyDecl"}}

C20_PolicyDeclCompiled ==
    (/\ Compiled
     /\ OneNamespaceName
     /\ RepeatedTables = {}
     /\ ColumnConflictTables = {}
     /\ RepeatedHandlers = {}
     /\ PolicyPositions # {})
    => /\ compile_ret.status = "Ok"
       /\ \A p \in PolicyPositions :
             LET ns == compile_ret.value.namespaces[Head(pkg.files[1].statements).name]
             IN IF DeclAt(p).stmt = "AuthenticationPolicyDecl"
                THEN /\ DeclAt(p).name \in DOMAIN ns.authentication_policies
                     /\ ns.authentication_policies[DeclAt(p).name].name = DeclAt(p).name
                ELSE /\ DeclAt(p).name \in DOMAIN ns.authorization_policies
                     /\ ns.authorization_policies[DeclAt(p).name].name = DeclAt(p).name

\* what the call does on a unit with a policy declaration: it never returns a catalog
C20_PolicyDeclNeverCompiles ==
    (Compiled /\ PolicyPositions # {}) => compile_ret.status # "Ok"

(***************************************************************************)
(* C21: each HttpHandlerDecl of a compilation unit becomes one HttpHandler *)
(* in the namespace's handler map with the declared name, body and policy  *)
(* reference; a second HttpHandlerDecl with an already-declared handler    *)
(* name (in the same or another file) makes compile fail with a            *)
(* CompileError naming the handler and the file of the second declaration. *)
(* Stated for units whose files agree on the namespace and that hold only  *)
(* table and handler declarations without table or column conflicts.       *)
(***************************************************************************)
HandlersCompilable ==
    /\ OneNamespaceName
    /\ OnlyTablesAndHandlers
    /\ RepeatedTables = {}
    /\ ColumnConflictTables = {}

\* the first repeated handler declaration of the statement stream
FirstRepeatedHandler ==
    CHOOSE q \in RepeatedHandlers : \A p \in RepeatedHandlers : p = q \/ Before(q, p)

DuplicateHandlerIsCompileError ==
    (Compiled /\ HandlersCompilable /\ RepeatedHandlers # {})
    => /\ compile_ret.status = "Err"
       /\ compile_ret.error =
             CompileError(<<"conflicting http handler declaration: ",
                            DeclAt(FirstRepeatedHandler).name>>,
                          pkg.files[FirstRepeatedHandler[1]].path)

C21_HandlerDecl ==
    /\ (Compiled /\ HandlersCompilable /\ RepeatedHandlers = {} /\ pkg.files # <<>>)
       => /\ compile_ret.status = "Ok"
          /\ LET ns == compile_ret.value.namespaces[Head(pkg.files[1].statements).name]
             IN /\ DOMAIN ns.http_handlers = {DeclAt(p).name : p \in HandlerPositions}
                /\ \A p \in HandlerPositions :
                      ns.http_handlers[DeclAt(p).name] =
                         HttpHandler(ns.name, DeclAt(p).name,
                                     SqlToString(DeclAt(p).body), DeclAt(p).policy)
    /\ DuplicateHandlerIsCompileError

\* the duplicate half of C21, and what a compiled handler does hold: the declared
\* name and body under the declared name
C21_HandlerDeclWithoutPolicy ==
    /\ (Compiled /\ HandlersCompilable /\ RepeatedHandlers = {} /\ pkg.files # <<>>)
       => /\ compile_ret.status = "Ok"
          /\ LET ns == compile_ret.value.namespaces[Head(pkg.files[1].statements).name]
             IN /\ DOMAIN ns.http_handlers = {DeclAt(p).name : p \in HandlerPositions}
                /\ \A p \in HandlerPositions :
                      /\ ns.http_handlers[DeclAt(p).name].name = DeclAt(p).name
                      /\ ns.http_handlers[DeclAt(p).name].body = SqlToString(DeclAt(p).body)
    /\ DuplicateHandlerIsCompileError

(***************************************************************************)
(* C22: compile yields a catalog containing exactly what was declared: no  *)
(* namespace for an empty unit, otherwise exactly one namespace, holding   *)
(* one Table per TableDecl with the declared name, uuid, owning-namespace  *)
(* name, and its columns in declaration order with the declared uid, name  *)
(* and data type.                                                          *)
(***************************************************************************)
\* the columns of a declaration, as Column values in declaration order
DeclaredColumns(table_decl) ==
    [i \in 1..Len(table_decl.columns) |->
        Column(table_decl.columns[i].uid, table_decl.columns[i].inner.name.value,
               table_decl.columns[i].inner.data_type)]

C22_CompiledAsDeclared ==
    /\ (Compiled /\ NoDeclarationConflict /\ OneNamespaceName) => compile_ret.status = "Ok"
    /\ (Compiled /\ compile_ret.status = "Ok") =>
          IF pkg.files = <<>>
          THEN compile_ret.value = DefaultCatalog
          ELSE LET n == Head(pkg.files[1].statements).name
               IN /\ DOMAIN compile_ret.value.namespaces = {n}
                  /\ compile_ret.value.namespaces[n].name = n
                  /\ DOMAIN compile_ret.value.namespaces[n].tables =
                        {DeclAt(p).name : p \in TablePositions}
                  /\ \A p \in TablePositions :
                        compile_ret.value.namespaces[n].tables[DeclAt(p).name] =
                           Table(n, DeclAt(p).uuid, DeclAt(p).name, DeclaredColumns(DeclAt(p)))
                  /\ Cardinality(DOMAIN compile_ret.value.namespaces[n].tables) =
                        Cardinality(TablePositions)

\* compile returned a catalog for a unit of two files with two table declarations,
\* one of them with two columns
C22_Witness ==
    /\ compile_ret.status = "Ok"
    /\ Len(pkg.files) = 2
    /\ Cardinality(TablePositions) = 2
    /\ \E p \in TablePositions : Len(DeclAt(p).columns) = 2
    /\ \E p, q \in TablePositions : p[1] # q[1]

\* compile returned the empty catalog for the unit without files
C22_WitnessEmpty ==
    /\ compile_ret.status = "Ok"
    /\ pkg.files = <<>>

(***************************************************************************)
(* C23: Catalog::apply of a DropTable, DropHttpHandler,                    *)
(* DropAuthenticationPolicy or DropAuthorizationPolicy edit whose named    *)
(* entity does not exist in the (existing) namespace returns an ApplyError *)
(* and leaves the catalog unchanged; it does not report success.           *)
(***************************************************************************)
\* the last apply call was a drop of an entity that its namespace, present in the
\* catalog, did not hold
DropOfMissingEntity ==
    /\ edit.kind \in {"DropTable", "DropHttpHandler", "DropAuthenticationPolicy",
                      "DropAuthorizationPolicy"}
    /\ EditNamespace(edit) \in DOMAIN before.namespaces
    /\ LET ns == before.namespaces[EditNamespace(edit)]
       IN CASE edit.kind = "DropTable" -> edit.table.name \notin DOMAIN ns.tables
            [] edit.kind = "DropHttpHandler" -> edit.handler.name \notin DOMAIN ns.http_handlers
            [] edit.kind = "DropAuthenticationPolicy" ->
                   edit.policy.name \notin DOMAIN ns.authentication_policies
            [] OTHER -> edit.policy.name \notin DOMAIN ns.authorization_policies

C23_DropMissingIsError ==
    DropOfMissingEntity => (status = "Err" /\ catalog = before)

\* what the call does: it reports success and leaves the catalog as it was
C23_DropMissingSucceeds ==
    DropOfMissingEntity => (status = "Ok" /\ catalog = before)

(***************************************************************************)
(* C27: Catalog::apply of an edit for an existing namespace N changes only *)
(* the one map of N that the edit kind targets (tables for                 *)
(* Create/DropTable, http_handlers for Replace/DropHttpHandler, the        *)
(* matching policy map for policy edits), and only at the key equal to the *)
(* entity's name (insert/upsert for Create/Replace, removal for Drop);     *)
(* every other namespace, every other map of N and every other key is      *)
(* unchanged.                                                              *)
(***************************************************************************)
MapFields == {"tables", "http_handlers", "authentication_policies", "authorization_policies"}

\* the map of a namespace that an edit kind targets
TargetMap(e) ==
    CASE e.kind \in {"CreateTable", "DropTable"} -> "tables"
      [] e.kind \in {"ReplaceHttpHandler", "DropHttpHandler"} -> "http_handlers"
      [] e.kind \in {"ReplaceAuthenticationPolicy", "DropAuthenticationPolicy"} ->
             "authentication_policies"
      [] OTHER -> "authorization_policies"

\* the entity an edit carries
EditEntity(e) ==
    CASE e.kind \in {"CreateTable", "DropTable"} -> e.table
      [] e.kind \in {"ReplaceHttpHandler", "DropHttpHandler"} -> e.handler
      [] OTHER -> e.policy

IsDropEdit(e) ==
    e.kind \in {"DropTable", "DropHttpHandler", "DropAuthenticationPolicy",
                "DropAuthorizationPolicy"}

\* the last apply call was an entity edit for a namespace the catalog held
EntityEditOfExistingNamespace ==
    /\ edit.kind \notin {"none", "CreateNamespace", "Ddl"}
    /\ EditNamespace(edit) \in DOMAIN before.namespaces

C27_ApplyFrame ==
    EntityEditOfExistingNamespace =>
       LET n == EditNamespace(edit)
           field == TargetMap(edit)
           entity == EditEntity(edit)
           old == before.namespaces[n][field]
           new == catalog.namespaces[n][field]
       IN /\ status = "Ok"
          /\ DOMAIN catalog.namespaces = DOMAIN before.namespaces
          /\ \A m \in DOMAIN before.namespaces :
                m # n => catalog.namespaces[m] = before.namespaces[m]
          /\ catalog.namespaces[n].name = before.namespaces[n].name
          /\ \A f \in MapFields \ {field} :
                catalog.namespaces[n][f] = before.namespaces[n][f]
          /\ (DOMAIN new) \ {entity.name} = (DOMAIN old) \ {entity.name}
          /\ \A k \in (DOMAIN old) \ {entity.name} : new[k] = old[k]
          /\ IF IsDropEdit(edit) THEN entity.name \notin DOMAIN new
             ELSE entity.name \in DOMAIN new /\ new[entity.name] = entity

\* a DropTable was applied to a namespace that holds another table with the same
\* uuid under another name, next to a second namespace with a table
C27_Witness ==
    /\ status = "Ok"
    /\ edit.kind = "DropTable"
    /\ EditNamespace(edit) \in DOMAIN before.namespaces
    /\ \E k \in DOMAIN catalog.namespaces[edit.table.namespace].tables :
          /\ k # edit.table.name
          /\ catalog.namespaces[edit.table.namespace].tables[k].uuid = edit.table.uuid
    /\ \E m \in DOMAIN catalog.namespaces :
          m # edit.table.namespace /\ DOMAIN catalog.namespaces[m].tables # {}

\* a handler was replaced by one with another body
C27_WitnessUpsert ==
    /\ status = "Ok"
    /\ edit.kind = "ReplaceHttpHandler"
    /\ EditNamespace(edit) \in DOMAIN before.namespaces
    /\ edit.handler.name \in DOMAIN before.namespaces[edit.handler.namespace].http_handlers
    /\ before.namespaces[edit.handler.namespace].http_handlers[edit.handler.name]
          # edit.handler

(***************************************************************************)
(* C24: EnsembleX::apply only stages.  For a CreateTable or DropTable edit *)
(* it applies the edit to the in-memory catalog and appends exactly one    *)
(* pending physical action; for every other edit kind it applies the edit  *)
(* and appends none; in no case does an apply call execute a physical      *)
(* action or write the persisted catalog record.                           *)
(***************************************************************************)
\* the step is a call of EnsembleX::apply (commit leaves edit at NoEdit)
IsApplyCall == edit' # NoEdit

ApplyCallStages ==
    IsApplyCall =>
       /\ record' = record
       /\ objects' = objects
       /\ status' = "Ok" =>
             /\ catalog' = Apply(catalog, edit').catalog
             /\ IF edit'.kind = "CreateTable"
                THEN pending_actions' = Append(pending_actions, CreateTableAction(edit'.table))
                ELSE IF edit'.kind = "DropTable"
                THEN pending_actions' = Append(pending_actions, DropTableAction(edit'.table))
                ELSE pending_actions' = pending_actions
       /\ status' # "Ok" => pending_actions' = pending_actions

C24_ApplyOnlyStages == [][ApplyCallStages]_vars

\* a DropTable was staged behind an earlier action, with nothing executed or written
C24_Witness ==
    /\ status = "Ok"
    /\ edit.kind = "DropTable"
    /\ Len(pending_actions) = 2
    /\ pending_actions[2] = DropTableAction(edit.table)
    /\ edit.table.name \notin DOMAIN catalog.namespaces[edit.table.namespace].tables
    /\ objects = {}
    /\ record = Absent

(***************************************************************************)
(* C25: EnsembleX::new starts from an empty default catalog with an empty  *)
(* pending-action queue when the persisted catalog record is absent,       *)
(* without reporting an error; any other storage failure or an undecodable *)
(* record makes new return an error instead of an empty catalog.           *)
(***************************************************************************)
Constructed == new_ret.ret.result # "none"

RecordAbsent == new_ret.get.result = "Err" /\ new_ret.get.error = "NotFound"

StorageFailure ==
    \/ new_ret.get.result = "Err" /\ new_ret.get.error # "NotFound"
    \/ new_ret.get.result = "Ok" /\ new_ret.get.bytes = "Err"

RecordUndecodable == new_ret.get.result = "Ok" /\ ~Decodable(new_ret.read)

C25_NewFromStorage ==
    Constructed =>
       /\ RecordAbsent =>
             /\ new_ret.ret.result = "Ok"
             /\ new_ret.ret.catalog = DefaultCatalog
             /\ new_ret.ret.pending_actions = <<>>
       /\ (StorageFailure \/ RecordUndecodable) => new_ret.ret.result = "Err"

C25_Witness ==
    /\ RecordAbsent
    /\ new_ret.ret.result = "Ok"
    /\ catalog = DefaultCatalog
    /\ pending_actions = <<>>
    /\ edit = NoEdit

C25_WitnessFailure == StorageFailure /\ new_ret.read = Absent /\ new_ret.ret.result = "Err"

C25_WitnessUndecodable == RecordUndecodable /\ ~StorageFailure /\ new_ret.ret.result = "Err"

(***************************************************************************)
(* The conductor apply command (conductor/src/main.rs:133-164): compile    *)
(* the score, open the ensemble, diff its catalog against the compiled     *)
(* one, stage every edit and commit when --commit was given.               *)
(***************************************************************************)
ApplyCall(e, s) == [call |-> "apply", edit |-> e, status |-> s]

CommitCall(r) == [call |-> "commit", result |-> r]

\* the physical tables of an ensemble whose catalog is c
ObjectsOf(c) ==
    UNION {{Location(ns.name, t.name) : t \in Values(ns.tables)} : ns \in Values(c.namespaces)}

StoredCatalogs == CatalogsC

ScoreCatalogs == CatalogsC \cup CatalogsN \cup CatalogsW

InitConductor ==
    /\ IdleCompile
    /\ IdleParse
    /\ IdleServer
    /\ \/ record \in {Absent, Undecodable} /\ objects = {}
       \/ \E c \in StoredCatalogs : record = Json(c) /\ objects = ObjectsOf(c)
    /\ to \in ScoreCatalogs
    /\ commit \in BOOLEAN
    /\ calls = <<>>
    /\ from = DefaultCatalog
    /\ pc = "start"
    /\ edits = <<>>
    /\ edits2 = NotCalled
    /\ work = DefaultCatalog
    /\ idx = 1
    /\ IdleApply
    /\ pending_actions = <<>>
    /\ commit_ret = NoCommit
    /\ new_ret = NotConstructed

\* score.catalog()? and configure_ensemble_x_storage(..)?
OpenScore ==
    /\ pc = "start"
    /\ pc' \in {"opened", "failed"}
    /\ UNCHANGED <<from, to, edits, edits2, work, idx, applyVars, ensembleVars, compileVars,
                   conductorVars, parseVars, serverVars>>

\* EnsembleX::new(store).await? and ensemble.catalog()?
OpenEnsemble ==
    /\ pc = "opened"
    /\ \E fault \in StorageFaults :
          LET get == StorageGet(record, fault)
          IN  new_ret' = [read |-> record, get |-> get, ret |-> New(record, get)]
    /\ IF new_ret'.ret.result = "Ok"
       THEN /\ catalog' = new_ret'.ret.catalog
            /\ pending_actions' = new_ret'.ret.pending_actions
            /\ from' = catalog'
            /\ pc' = "constructed"
       ELSE /\ UNCHANGED <<catalog, pending_actions, from>>
            /\ pc' = "failed"
    /\ before' = catalog'
    /\ UNCHANGED <<to, edits, edits2, work, idx, edit, status, record, objects, commit_ret,
                   compileVars, conductorVars, parseVars, serverVars>>

\* diff.diff(&from_catalog, &catalog)? and the early return on an empty diff
DiffCatalogs ==
    /\ pc = "constructed"
    /\ \E r \in DiffOutcomes(from, to) :
          IF r.status = "Ok"
          THEN edits' = r.value /\ pc' = IF edits' = <<>> THEN "done" ELSE "staging"
          ELSE edits' = edits /\ pc' = "aborted"
    /\ UNCHANGED <<from, to, edits2, work, idx, applyVars, ensembleVars, compileVars,
                   conductorVars, parseVars, serverVars>>

\* one turn of the loop: ensemble.apply(&edit).await?
StageEdit ==
    /\ pc = "staging"
    /\ idx <= Len(edits)
    /\ LET r == EnsembleApply(catalog, pending_actions, edits[idx])
       IN /\ catalog' = r.catalog
          /\ pending_actions' = r.pending_actions
          /\ status' = r.status
          /\ calls' = Append(calls, ApplyCall(edits[idx], r.status))
          /\ IF r.status = "Ok"
             THEN idx' = idx + 1 /\ pc' = "staging"
             ELSE idx' = idx /\ pc' = "panicked"
    /\ before' = catalog
    /\ edit' = edits[idx]
    /\ UNCHANGED <<from, to, edits, edits2, work, record, objects, commit_ret, new_ret,
                   compileVars, commit, parseVars, serverVars>>

\* faulty variant: the changes are committed whether or not --commit was given
FinishApply_AlwaysCommits ==
    /\ pc = "staging"
    /\ idx > Len(edits)
    /\ \E fail_at \in 0..(Len(pending_actions) + 1) :
          LET out == CommitOutcome(catalog, pending_actions, record, objects, fail_at)
          IN /\ record' = out.record
             /\ objects' = out.objects
             /\ commit_ret' = [result |-> out.result, staged |-> pending_actions,
                               executed |-> out.executed, record_before |-> record]
             /\ calls' = Append(calls, CommitCall(out.result))
             /\ pc' = IF out.result = "Ok" THEN "done" ELSE "failed"
    /\ pending_actions' = <<>>
    /\ UNCHANGED <<from, to, edits, edits2, work, idx, applyVars, new_ret, compileVars,
                   commit, parseVars, serverVars>>

\* after the loop: if commit { ensemble.commit().await?; } Ok(())
FinishApply ==
    /\ pc = "staging"
    /\ idx > Len(edits)
    /\ IF commit
       THEN /\ \E fail_at \in 0..(Len(pending_actions) + 1) :
                  LET out == CommitOutcome(catalog, pending_actions, record, objects, fail_at)
                  IN /\ record' = out.record
                     /\ objects' = out.objects
                     /\ commit_ret' = [result |-> out.result, staged |-> pending_actions,
                                       executed |-> out.executed, record_before |-> record]
                     /\ calls' = Append(calls, CommitCall(out.result))
                     /\ pc' = IF out.result = "Ok" THEN "done" ELSE "failed"
            /\ pending_actions' = <<>>
       ELSE /\ pc' = "done"
            /\ UNCHANGED <<record, objects, commit_ret, calls, pending_actions>>
    /\ UNCHANGED <<from, to, edits, edits2, work, idx, applyVars, new_ret, compileVars,
                   commit, parseVars, serverVars>>

NextConductor == OpenScore \/ OpenEnsemble \/ DiffCatalogs \/ StageEdit \/ FinishApply

\* the command runs on the tokio runtime until it returns
FairConductor == InitConductor /\ [][NextConductor]_vars /\ WF_vars(NextConductor)

(***************************************************************************)
(* C26: running the conductor apply command without --commit is a dry run: *)
(* edits are staged in diff order but commit is never called, so no        *)
(* physical action is executed and the persisted catalog record is         *)
(* unchanged; with --commit, commit is called exactly once, after every    *)
(* edit has been staged successfully, and not at all when the diff is      *)
(* empty or a staging call fails.                                          *)
(***************************************************************************)
CommitCalls == {i \in 1..Len(calls) : calls[i].call = "commit"}

StagedInDiffOrder ==
    \A i \in 1..Len(calls) :
       calls[i].call = "apply" => i <= Len(edits) /\ calls[i].edit = edits[i]

CommitOnlyAfterStaging ==
    \A i \in CommitCalls :
       /\ commit
       /\ Len(edits) > 0
       /\ i = Len(edits) + 1
       /\ \A j \in 1..(i - 1) : calls[j].call = "apply" /\ calls[j].status = "Ok"

DryRunStep == ~commit => record' = record /\ objects' = objects

AllStaged ==
    /\ Len(edits) > 0
    /\ Len(calls) >= Len(edits)
    /\ \A j \in 1..Len(edits) : calls[j].call = "apply" /\ calls[j].status = "Ok"

C26_DryRunUnlessCommit ==
    /\ [](StagedInDiffOrder /\ CommitOnlyAfterStaging /\ (~commit => CommitCalls = {}))
    /\ [][DryRunStep]_vars
    /\ (commit /\ AllStaged) ~> (Cardinality(CommitCalls) = 1)
    /\ (~commit /\ pc = "staging") ~> (pc = "panicked" \/ (pc = "done" /\ AllStaged))

C26_Witness ==
    /\ commit
    /\ pc = "done"
    /\ Len(edits) >= 2
    /\ Len(calls) = Len(edits) + 1
    /\ calls[Len(calls)] = CommitCall("Ok")
    /\ record = Json(catalog)

C26_WitnessDryRun ==
    /\ ~commit
    /\ pc = "done"
    /\ Len(edits) >= 2
    /\ Len(calls) = Len(edits)
    /\ pending_actions # <<>>
    /\ record = new_ret.read
    /\ catalog # from

C26_WitnessStagingFails == commit /\ pc = "panicked" /\ Len(calls) >= 2 /\ CommitCalls = {}

(***************************************************************************)
(* C28: given any two catalogs that satisfy the data-model invariants,     *)
(* diff always returns an edit sequence: it never returns a DiffError and  *)
(* never aborts on a failed lookup or assertion.                           *)
(***************************************************************************)
DiffCalled == pc \in {"diffed", "aborted"}

C28_DiffAlwaysReturns ==
    (SnapshotInvariants(from) /\ SnapshotInvariants(to) /\ DiffCalled) =>
       /\ pc = "diffed"
       /\ \A i \in 1..Len(edits) : edits[i].kind \in EditKinds

\* a diff that looked up a dropped table, a created table, a common table with
\* columns on both sides and a handler
C28_Witness ==
    /\ pc = "diffed"
    /\ SnapshotInvariants(from) /\ SnapshotInvariants(to)
    /\ \E n \in DOMAIN from.namespaces \cap DOMAIN to.namespaces :
          /\ TableIds(from.namespaces[n]) \ TableIds(to.namespaces[n]) # {}
          /\ TableIds(to.namespaces[n]) \ TableIds(from.namespaces[n]) # {}
          /\ HandlerNamesOf(from.namespaces[n]) # HandlerNamesOf(to.namespaces[n])

C28_WitnessColumns ==
    /\ pc = "diffed"
    /\ \E n \in DOMAIN from.namespaces \cap DOMAIN to.namespaces :
          \E u \in TableIds(from.namespaces[n]) \cap TableIds(to.namespaces[n]) :
             /\ Len(get_table_by_uuid(from.namespaces[n], u).columns) = 2
             /\ Len(get_table_by_uuid(to.namespaces[n], u).columns) = 2
             /\ Len(edits) >= 3

(***************************************************************************)
(* ScoreParser (score/src/parser.rs).  The input is the token stream the   *)
(* tokenizer hands to the parser, without whitespace; a token is written   *)
(* as its text.  Every parse function takes the stream and the position of *)
(* the next token and returns the position behind what it consumed.        *)
(***************************************************************************)
EOF == "EOF"

Words ==
    {"NAMESPACE", "namespace", "TABLE", "table", "UUID", "UID", "INTEGER", "TEXT", "UNIQUE",
     "HTTP_HANDLER", "POLICY", "AS", "AUTHENTICATION_POLICY", "TYPE", "anonymous",
     "AUTHORIZATION_POLICY", "permissive_expr", "true", "n1", "t", "x", "y", "h", "p"}

\* single quoted strings and the text between their quotes
StringValue == [s \in {"'n1'", "'U1'", "'U2'", "'zz'"} |->
                   CASE s = "'n1'" -> "n1" [] s = "'U1'" -> "U1" [] s = "'U2'" -> "U2"
                     [] OTHER -> "zz"]

\* number literals and what str::parse::<u32> makes of them (2^32 does not fit)
NumberValue == [s \in {"1", "2", "4294967296"} |->
                   CASE s = "1" -> [status |-> "Ok", value |-> 1]
                     [] s = "2" -> [status |-> "Ok", value |-> 2]
                     [] OTHER -> [status |-> "Err"]]

\* dollar quoted strings and what SqlParser::parse_sql makes of their text
DollarQuoted == [s \in {"$$SELECT 1$$", "$$$$", "$$SELEC$$"} |->
                    CASE s = "$$SELECT 1$$" -> [status |-> "Ok", stmts |-> <<[select |-> 1]>>]
                      [] s = "$$$$" -> [status |-> "Ok", stmts |-> <<>>]
                      [] OTHER -> [status |-> "Err"]]

\* str::to_lowercase on the words of the input
to_lowercase(w) ==
    CASE w = "NAMESPACE" -> "namespace" [] w = "TABLE" -> "table" [] w = "UUID" -> "uuid"
      [] w = "UID" -> "uid" [] w = "INTEGER" -> "integer" [] w = "TEXT" -> "text"
      [] w = "UNIQUE" -> "unique" [] w = "HTTP_HANDLER" -> "http_handler"
      [] w = "POLICY" -> "policy" [] w = "AS" -> "as" [] w = "TYPE" -> "type"
      [] w = "AUTHENTICATION_POLICY" -> "authentication_policy"
      [] w = "AUTHORIZATION_POLICY" -> "authorization_policy"
      [] OTHER -> w

Parsed(p, v) == [status |-> "Ok", pos |-> p, value |-> v]

\* an error of sqlparser's Parser
ParserError(what, p) == Err([variant |-> "ParserError", expected |-> what, at |-> p])

peek_token(ts, p) == IF p <= Len(ts) THEN ts[p] ELSE EOF

expected(what, ts, p) == Err(Error(<<"Expected ", what, ", found: ", peek_token(ts, p), p>>))

expect_token(ts, p, tok) ==
    IF peek_token(ts, p) = tok THEN Parsed(p + 1, tok) ELSE ParserError(tok, p)

parse_identifier(ts, p) ==
    IF peek_token(ts, p) \in Words THEN Parsed(p + 1, peek_token(ts, p))
    ELSE IF peek_token(ts, p) \in DOMAIN StringValue
    THEN Parsed(p + 1, StringValue[peek_token(ts, p)])
    ELSE ParserError("identifier", p)

parse_value(ts, p) ==
    IF peek_token(ts, p) \in DOMAIN NumberValue
    THEN Parsed(p + 1, [value |-> "Number", num |-> peek_token(ts, p)])
    ELSE IF peek_token(ts, p) \in DOMAIN StringValue
    THEN Parsed(p + 1, [value |-> "SingleQuotedString", s |-> StringValue[peek_token(ts, p)]])
    ELSE IF peek_token(ts, p) = "true" THEN Parsed(p + 1, [value |-> "Boolean"])
    ELSE IF peek_token(ts, p) \in DOMAIN DollarQuoted
    THEN Parsed(p + 1, [value |-> "DollarQuotedString"])
    ELSE ParserError("a value", p)

\* a type name; the inputs hold no precision or modifier list behind it
parse_data_type(ts, p) ==
    IF peek_token(ts, p) \in Words THEN Parsed(p + 1, peek_token(ts, p))
    ELSE ParserError("a data type name", p)

\* an expression of one token
parse_expr(ts, p) ==
    IF peek_token(ts, p) \in {"true", "p", "x"} \cup DOMAIN NumberValue
    THEN Parsed(p + 1, peek_token(ts, p))
    ELSE ParserError("an expression", p)

\* the element of a one-element set: The({e(x) : x \in {v}}) is e with x bound to the
\* value of v, which is then computed once
The(S) == CHOOSE x \in S : TRUE

parse_namespace_decl(ts, p) ==
    IF peek_token(ts, p) \in Words /\ to_lowercase(peek_token(ts, p)) = "namespace"
    THEN parse_identifier(ts, p + 1)
    ELSE expected("NAMESPACE <single quoted namespace string>", ts, p)

parse_table_uuid(ts, p) ==
    IF peek_token(ts, p) \in Words /\ to_lowercase(peek_token(ts, p)) = "uuid"
    THEN The({IF v.status # "Ok" THEN v
              ELSE IF v.value.value = "SingleQuotedString"
              THEN IF v.value.s \in Uuids THEN Parsed(v.pos, v.value.s)
                   ELSE expected("valid uuid value", ts, p + 1)
              ELSE expected("single quoted uuid string", ts, p + 1) :
                 v \in {parse_value(ts, p + 1)}})
    ELSE expected("UUID <single quoted uuid string>", ts, p)

parse_column_def_uid(ts, p) ==
    IF peek_token(ts, p) \in Words /\ to_lowercase(peek_token(ts, p)) = "uid"
    THEN The({IF v.status # "Ok" THEN v
              ELSE IF v.value.value = "Number"
              THEN IF NumberValue[v.value.num].status = "Ok"
                   THEN Parsed(v.pos, NumberValue[v.value.num].value)
                   ELSE Err(Error(<<"number too large to fit in target type">>))
              ELSE expected("literal number", ts, v.pos) :
                 v \in {parse_value(ts, p + 1)}})
    ELSE expected("UID <literal number>", ts, p)

parse_column_def(ts, p) ==
    The({IF name.status # "Ok" THEN name
         ELSE The({IF data_type.status # "Ok" THEN data_type
                   ELSE The({IF uid.status # "Ok" THEN uid
                             ELSE Parsed(uid.pos,
                                         ColumnDef(uid.value, name.value, data_type.value)) :
                                uid \in {parse_column_def_uid(ts, data_type.pos)}}) :
                      data_type \in {parse_data_type(ts, name.pos)}}) :
            name \in {parse_identifier(ts, p)}})

\* the column names of a UNIQUE constraint from position p: identifiers separated by
\* commas up to the closing parenthesis
RECURSIVE parse_column_names(_, _)
parse_column_names(ts, p) ==
    The({IF name.status # "Ok" THEN name
         ELSE IF peek_token(ts, name.pos) = "," THEN parse_column_names(ts, name.pos + 1)
         ELSE expect_token(ts, name.pos, ")") :
            name \in {parse_identifier(ts, p)}})

\* Parser::parse_optional_table_constraint for the UNIQUE (columns) form; value "None"
\* when the next token starts no constraint
parse_optional_table_constraint(ts, p) ==
    IF peek_token(ts, p) # "UNIQUE" THEN Parsed(p, "None")
    ELSE IF peek_token(ts, p + 1) # "(" THEN ParserError("(", p + 1)
    ELSE The({IF names.status # "Ok" THEN names ELSE Parsed(names.pos, "Unique") :
                 names \in {parse_column_names(ts, p + 2)}})

\* one turn of the loop of parse_columns up to the comma: the columns with the parsed
\* item added
parse_columns_item(ts, p, columns) ==
    The({IF constraint.status # "Ok" THEN constraint
         ELSE IF constraint.value # "None" THEN Parsed(constraint.pos, columns)
         ELSE IF peek_token(ts, p) \in Words
         THEN The({IF column_def.status # "Ok" THEN column_def
                   ELSE Parsed(column_def.pos, Append(columns, column_def.value)) :
                      column_def \in {parse_column_def(ts, p)}})
         ELSE expected("column name or constraint definition", ts, p) :
            constraint \in {parse_optional_table_constraint(ts, p)}})

\* the loop of parse_columns, entered behind the opening parenthesis
RECURSIVE parse_columns_loop(_, _, _)
parse_columns_loop(ts, p, columns) ==
    The({IF item.status # "Ok" THEN item
         ELSE The({IF peek_token(ts, q) = ")" THEN Parsed(q + 1, item.value)
                   ELSE IF q = item.pos
                   THEN expected("',' or ')' after column definition", ts, q)
                   ELSE parse_columns_loop(ts, q, item.value) :
                      q \in {IF peek_token(ts, item.pos) = "," THEN item.pos + 1
                             ELSE item.pos}}) :
            item \in {parse_columns_item(ts, p, columns)}})

parse_columns(ts, p) ==
    IF peek_token(ts, p) # "(" THEN Parsed(p, <<>>)
    ELSE IF peek_token(ts, p + 1) = ")" THEN Parsed(p + 2, <<>>)
    ELSE parse_columns_loop(ts, p + 1, <<>>)

parse_table_decl(ts, p) ==
    The({IF name.status # "Ok" THEN name
         ELSE The({IF uuid.status # "Ok" THEN uuid
                   ELSE The({IF columns.status # "Ok" THEN columns
                             ELSE Parsed(columns.pos,
                                         TableDecl(name.value, uuid.value, columns.value)) :
                                columns \in {parse_columns(ts, uuid.pos)}}) :
                      uuid \in {parse_table_uuid(ts, name.pos)}}) :
            name \in {parse_identifier(ts, p)}})

\* the body of an HTTP_HANDLER declaration, from the token behind AS
parse_http_handler_body(ts, p, name, policy) ==
    IF peek_token(ts, p) \notin DOMAIN DollarQuoted
    THEN expected("dollar quoted string", ts, p)
    ELSE IF DollarQuoted[peek_token(ts, p)].status = "Err"
    THEN ParserError("an SQL statement", p)
    ELSE IF DollarQuoted[peek_token(ts, p)].stmts = <<>> THEN Aborted
    ELSE Parsed(p + 1, HttpHandlerDecl(name, policy, DollarQuoted[peek_token(ts, p)].stmts[1]))

parse_http_handler_decl(ts, p) ==
    The({IF name.status # "Ok" THEN name
         ELSE IF peek_token(ts, name.pos) # "POLICY" THEN ParserError("POLICY", name.pos)
         ELSE The({IF policy.status # "Ok" THEN policy
                   ELSE IF to_lowercase(peek_token(ts, policy.pos)) # "as"
                   THEN ParserError("AS", policy.pos)
                   ELSE parse_http_handler_body(ts, policy.pos + 1, name.value,
                                                policy.value) :
                      policy \in {parse_identifier(ts, name.pos + 1)}}) :
            name \in {parse_identifier(ts, p)}})

parse_authentication_policy_decl(ts, p) ==
    The({IF name.status # "Ok" THEN name
         ELSE IF to_lowercase(peek_token(ts, name.pos)) # "type"
         THEN ParserError("TYPE", name.pos)
         ELSE IF peek_token(ts, name.pos + 1) # "="
         THEN ParserError("=", name.pos + 1)
         ELSE IF peek_token(ts, name.pos + 2) # "anonymous"
         THEN ParserError("anonymous", name.pos + 2)
         ELSE Parsed(name.pos + 3, AuthenticationPolicyDecl(name.value, "anonymous")) :
            name \in {parse_identifier(ts, p)}})

parse_authorization_policy_decl(ts, p) ==
    The({IF name.status # "Ok" THEN name
         ELSE IF peek_token(ts, name.pos) # "permissive_expr"
         THEN ParserError("permissive_expr", name.pos)
         ELSE IF peek_token(ts, name.pos + 1) # "="
         THEN ParserError("=", name.pos + 1)
         ELSE The({IF permissive_expr.status # "Ok" THEN permissive_expr
                   ELSE Parsed(permissive_expr.pos,
                               AuthorizationPolicyDecl(name.value, permissive_expr.value)) :
                      permissive_expr \in {parse_expr(ts, name.pos + 2)}}) :
            name \in {parse_identifier(ts, p)}})

parse_statement(ts, p) ==
    CASE peek_token(ts, p) = "TABLE" -> parse_table_decl(ts, p + 1)
      [] peek_token(ts, p) = "HTTP_HANDLER" -> parse_http_handler_decl(ts, p + 1)
      [] peek_token(ts, p) = "AUTHENTICATION_POLICY" ->
            parse_authentication_policy_decl(ts, p + 1)
      [] peek_token(ts, p) = "AUTHORIZATION_POLICY" ->
            parse_authorization_policy_decl(ts, p + 1)
      [] OTHER ->
            expected("one of [TABLE, HTTP_HANDLER, AUTHENTICATION_POLICY, AUTHORIZATION_POLICY]",
                     ts, p)

\* the loop of parse: out are the statements so far, starts the positions of their
\* first tokens
RECURSIVE parse_loop(_, _, _, _)
parse_loop(ts, p, out, starts) ==
    IF peek_token(ts, p) = EOF THEN [status |-> "Ok", value |-> out, starts |-> starts]
    ELSE IF peek_token(ts, p) # ";" THEN ParserError(";", p)
    ELSE IF peek_token(ts, p + 1) = EOF
    THEN [status |-> "Ok", value |-> out, starts |-> starts]
    ELSE The({IF stmt.status # "Ok" THEN stmt
              ELSE parse_loop(ts, stmt.pos, Append(out, stmt.value), Append(starts, p + 1)) :
                 stmt \in {parse_statement(ts, p + 1)}})

\* faulty variant: a file need not start with a namespace declaration
parse_NamespaceOptional(ts) ==
    The({IF namespace.status # "Ok"
         THEN The({IF stmt.status # "Ok" THEN stmt
                   ELSE parse_loop(ts, stmt.pos, <<stmt.value>>, <<1>>) :
                      stmt \in {parse_statement(ts, 1)}})
         ELSE parse_loop(ts, namespace.pos, <<NamespaceDecl(namespace.value)>>, <<1>>) :
            namespace \in {parse_namespace_decl(ts, 1)}})

parse(ts) ==
    The({IF namespace.status # "Ok" THEN namespace
         ELSE parse_loop(ts, namespace.pos, <<NamespaceDecl(namespace.value)>>, <<1>>) :
            namespace \in {parse_namespace_decl(ts, 1)}})

(***************************************************************************)
(* Inputs of the parser: a file with one TABLE declaration whose column    *)
(* list is any sequence of list items, and files made of a head and up to  *)
(* MaxStatements statements with or without their separators.              *)
(***************************************************************************)
MaxItems == 5
MaxStatements == 2

ColumnDefText == <<"x", "INTEGER", "UID", "1">>

ListItems == {<<"(">>, <<")">>, <<",">>, ColumnDefText, <<"UNIQUE", "(", "x", ")">>, <<"y">>}

TablePrefix == <<"NAMESPACE", "n1", ";", "TABLE", "t", "UUID", "'U1'">>

HeadTexts ==
    {<<"NAMESPACE", "n1">>, <<"namespace", "n1">>, <<"NAMESPACE", "'n1'">>, <<"NAMESPACE">>,
     <<"NAMESPACE", ";">>, <<>>}

StatementTexts ==
    {<<"TABLE", "t", "UUID", "'U1'">>,
     <<"TABLE", "t", "UUID", "'U1'", "(", ")">>,
     <<"TABLE", "s", "UUID", "'U2'", "(">> \o ColumnDefText \o <<")">>,
     <<"TABLE", "t", "UUID", "'zz'", "(", ")">>,
     <<"TABLE", "t", "UUID", "'U1'", "(", "x", "INTEGER", "UID", "4294967296", ")">>,
     <<"table", "t", "UUID", "'U1'", "(", ")">>,
     <<"HTTP_HANDLER", "h", "POLICY", "p", "AS", "$$SELECT 1$$">>,
     <<"HTTP_HANDLER", "h", "POLICY", "p", "AS", "$$$$">>,
     <<"HTTP_HANDLER", "h", "POLICY", "p", "AS", "$$SELEC$$">>,
     <<"AUTHENTICATION_POLICY", "p", "TYPE", "=", "anonymous">>,
     <<"AUTHORIZATION_POLICY", "p", "permissive_expr", "=", "true">>,
     <<"NAMESPACE", "n1">>}

Separators == {<<";">>, <<>>}

InitParse ==
    /\ IdleServer
    /\ IdleDiff
    /\ IdleApply
    /\ IdleEnsemble
    /\ IdleCompile
    /\ IdleConductor
    /\ \/ \E k \in 0..MaxItems, end \in Separators :
             \E items \in [1..k -> ListItems] : tokens = TablePrefix \o Flatten(items) \o end
       \/ \E k \in 0..MaxStatements, head \in HeadTexts, end \in Separators :
             \E seps \in [1..k -> Separators], stmts \in [1..k -> StatementTexts] :
                tokens = head \o Flatten([i \in 1..k |-> seps[i] \o stmts[i]]) \o end
    /\ parse_ret = NotParsed

\* ScoreParser::new(text)?.parse()
DoParse ==
    /\ parse_ret = NotParsed
    /\ parse_ret' = parse(tokens)
    /\ UNCHANGED <<tokens, diffVars, applyVars, ensembleVars, compileVars, conductorVars, serverVars>>

NextParse == DoParse

SpecParse == InitParse /\ [][NextParse]_vars

(***************************************************************************)
(* C29: parse succeeds only if the input starts with a NamespaceDecl;      *)
(* every statement sequence it returns has a NamespaceDecl at index 0 and  *)
(* no NamespaceDecl at any later index, and every later statement is       *)
(* preceded by a semicolon separator.                                      *)
(***************************************************************************)
ParseSucceeded == parse_ret.status = "Ok"

StartsWithNamespaceDecl ==
    /\ Len(tokens) >= 2
    /\ to_lowercase(tokens[1]) = "namespace"
    /\ tokens[2] \in Words \cup DOMAIN StringValue

C29_NamespaceDeclFirst ==
    ParseSucceeded =>
       /\ StartsWithNamespaceDecl
       /\ Len(parse_ret.value) >= 1
       /\ parse_ret.value[1].stmt = "NamespaceDecl"
       /\ \A i \in 2..Len(parse_ret.value) :
             /\ parse_ret.value[i].stmt # "NamespaceDecl"
             /\ parse_ret.starts[i] > 1
             /\ tokens[parse_ret.starts[i] - 1] = ";"

\* a file of a namespace declaration and two later statements was parsed
C29_Witness ==
    /\ ParseSucceeded
    /\ Len(parse_ret.value) = 3
    /\ parse_ret.value[2].stmt = "TableDecl"
    /\ parse_ret.value[3].stmt = "HttpHandlerDecl"

\* a file with a second namespace declaration, or with a missing separator, was refused
C29_WitnessRefused ==
    /\ parse_ret.status = "Err"
    /\ StartsWithNamespaceDecl
    /\ \E i \in 3..Len(tokens) : tokens[i] = "NAMESPACE"

(***************************************************************************)
(* C30: the column list of a TABLE declaration is accepted exactly when it *)
(* matches the grammar: an opening parenthesis, zero or more               *)
(* comma-separated ColumnDefs (each: identifier, data type, UID, unsigned  *)
(* integer), at most one trailing comma, and a closing parenthesis; a      *)
(* TABLE declaration with no parenthesised list, a list with two           *)
(* consecutive commas, or two ColumnDefs without a comma between them is a *)
(* parse error.                                                            *)
(***************************************************************************)
\* the file is one TABLE declaration; its column list is what follows the uuid
OneTableFile ==
    /\ Len(tokens) >= Len(TablePrefix)
    /\ SubSeq(tokens, 1, Len(TablePrefix)) = TablePrefix
    /\ \A i \in (Len(TablePrefix) + 1)..(Len(tokens) - 1) : tokens[i] # ";"

ColumnListText ==
    LET last == IF tokens[Len(tokens)] = ";" THEN Len(tokens) - 1 ELSE Len(tokens)
    IN SubSeq(tokens, Len(TablePrefix) + 1, last)

IsColumnDefText(l, i) ==
    /\ i + 3 <= Len(l)
    /\ l[i] \in Words \cup DOMAIN StringValue
    /\ l[i + 1] \in Words
    /\ l[i + 2] = "UID"
    /\ l[i + 3] \in DOMAIN NumberValue
    /\ NumberValue[l[i + 3]].status = "Ok"

\* ColumnDef ("," ColumnDef)* [","] ")" from position i to the end of l
RECURSIVE IsColumnDefsText(_, _)
IsColumnDefsText(l, i) ==
    /\ IsColumnDefText(l, i)
    /\ i + 4 <= Len(l)
    /\ \/ l[i + 4] = ")" /\ i + 4 = Len(l)
       \/ /\ l[i + 4] = ","
          /\ i + 5 <= Len(l)
          /\ \/ l[i + 5] = ")" /\ i + 5 = Len(l)
             \/ IsColumnDefsText(l, i + 5)

MatchesGrammar(l) ==
    /\ Len(l) >= 2
    /\ l[1] = "("
    /\ (l = <<"(", ")">> \/ IsColumnDefsText(l, 2))

C30_ColumnListGrammar ==
    (OneTableFile /\ parse_ret.status # "none") =>
       (ParseSucceeded <=> MatchesGrammar(ColumnListText))

\* the parts of the claim that the parser does keep: a list with two consecutive
\* commas or with two ColumnDefs not separated by a comma is refused, and a list that
\* matches the grammar is accepted
C30_RefusedLists ==
    (OneTableFile /\ parse_ret.status # "none") =>
       /\ MatchesGrammar(ColumnListText) => ParseSucceeded
       /\ (\E i \in 1..(Len(ColumnListText) - 1) :
              ColumnListText[i] = "," /\ ColumnListText[i + 1] = ",") => ~ParseSucceeded
       /\ (\E i \in 1..(Len(ColumnListText) - 4) :
              IsColumnDefText(ColumnListText, i) /\ IsColumnDefText(ColumnListText, i + 4))
             => ~ParseSucceeded

(***************************************************************************)
(* C33: while the edits of diff(from, to) are applied in emitted order to  *)
(* a copy of from, no CreateTable edit and no rename-table edit takes a    *)
(* table name that is, at that moment, held by a table with another uuid.  *)
(***************************************************************************)
\* the edit is a rename-table statement
IsRenameTableEdit(e) == e.kind = "Ddl" /\ e.stmt.operation.op = "RenameTable"

\* applied to catalog c, edit e gives its table a name that a table of another uuid holds
TakesHeldName(c, e) ==
    \/ /\ e.kind = "CreateTable"
       /\ e.table.namespace \in DOMAIN c.namespaces
       /\ e.table.name \in DOMAIN c.namespaces[e.table.namespace].tables
       /\ c.namespaces[e.table.namespace].tables[e.table.name].uuid # e.table.uuid
    \/ /\ IsRenameTableEdit(e)
       /\ \E n \in DOMAIN c.namespaces :
             LET tables == c.namespaces[n].tables
                 old == e.stmt.name[1].value
                 new == e.stmt.operation.table_name[1].value
             IN /\ old \in DOMAIN tables
                /\ new \in DOMAIN tables
                /\ tables[new].uuid # tables[old].uuid

\* the replay is about to apply edits[idx] to work
NextEditPending == pc \in {"diffed", "applying"} /\ idx <= Len(edits)

C33_TableNamesStayUnique == NextEditPending => ~TakesHeldName(work, edits[idx])

\* a table of from whose uuid to keeps is gone from the working copy after a CreateTable
C33_TableOverwritten ==
    /\ pc = "applying"
    /\ idx > 1
    /\ edits[idx - 1].kind = "CreateTable"
    /\ \E n \in CommonNamespaces :
          \E u \in CommonTables(n) : n \in DOMAIN work.namespaces /\ ~TableFound(work.namespaces[n], u)

(***************************************************************************)
(* C34: replaying, in emitted order, the column operations diff_table      *)
(* produces for one table never gives two columns of that table the same   *)
(* name at any intermediate point.                                         *)
(***************************************************************************)
\* the column names of a table after one ALTER TABLE operation
ReplayColumnOp(names, operation) ==
    CASE operation.op = "DropColumn" ->
            LET Kept(name) == name # operation.column_name.value
            IN SelectSeq(names, Kept)
      [] operation.op = "AddColumn" -> Append(names, operation.column_def.name.value)
      [] operation.op = "RenameColumn" ->
            [i \in 1..Len(names) |->
                IF names[i] = operation.old_column_name.value
                THEN operation.new_column_name.value ELSE names[i]]
      [] OTHER -> names

\* the column names after the first k edits of es
RECURSIVE ReplayColumnOps(_, _, _)
ReplayColumnOps(names, es, k) ==
    IF k = 0 THEN names
    ELSE ReplayColumnOp(ReplayColumnOps(names, es, k - 1), es[k].stmt.operation)

NamesDistinct(names) == \A i, j \in 1..Len(names) : i # j => names[i] # names[j]

ColumnNamesOf(t) == [i \in 1..Len(t.columns) |-> t.columns[i].name]

C34_ColumnNamesStayUnique ==
    Diffed =>
       \A n \in CommonNamespaces :
          \A u \in CommonTables(n) :
             \A es \in DiffTable(FromTable(n, u), ToTable(n, u)) :
                \A k \in 0..Len(es) :
                   NamesDistinct(ReplayColumnOps(ColumnNamesOf(FromTable(n, u)), es, k))

\* the part that holds: after the whole script the table has the column names of to
C34_ReplayEndsWithNamesOfTo ==
    Diffed =>
       \A n \in CommonNamespaces :
          \A u \in CommonTables(n) :
             \A es \in DiffTable(FromTable(n, u), ToTable(n, u)) :
                LET names == ReplayColumnOps(ColumnNamesOf(FromTable(n, u)), es, Len(es))
                IN NamesDistinct(names) =>
                      {names[i] : i \in 1..Len(names)} =
                      {ToTable(n, u).columns[i].name : i \in 1..Len(ToTable(n, u).columns)}

(***************************************************************************)
(* C37: in the edits diff_table emits for a table whose name changed, the  *)
(* rename-table edit comes first and every drop/add/rename-column and      *)
(* alter-type edit after it names the table by its new name; for a column  *)
(* whose name and type both changed, the rename-column edit precedes the   *)
(* alter-type edit, and the alter-type edit names the column by its new    *)
(* name.                                                                   *)
(***************************************************************************)
ColumnOpsNameNewTable(es, a, b) ==
    a.name # b.name =>
       /\ Len(es) >= 1
       /\ IsTableRename(es[1], a, b)
       /\ \A i \in 2..Len(es) :
             /\ es[i].kind = "Ddl"
             /\ es[i].stmt.operation.op \in {"DropColumn", "AddColumn", "RenameColumn",
                                             "AlterColumn"}
             /\ es[i].stmt.name = ObjectName(<<identifier(b.name)>>)

\* the rename-column edit of such a column is followed at once by its alter-type edit,
\* which carries the new name
RenameBeforeAlterType(es, a, b) ==
    \A uid \in RenamedRetypedColumns(a, b) :
       LET old == get_column_by_uid(a, uid)
           new == get_column_by_uid(b, uid)
           renames == {i \in 1..Len(es) :
                          es[i].stmt.operation =
                             RenameColumn(identifier(old.name), identifier(new.name))}
       IN /\ Cardinality(renames) = 1
          /\ \A i \in renames :
                /\ i < Len(es)
                /\ es[i + 1].stmt.operation =
                      AlterColumn(identifier(new.name), new.data_type)

C37_AlterationsUseNewNames ==
    Diffed =>
       \A n \in CommonNamespaces : \A u \in CommonTables(n) :
          /\ \A es \in DiffTable(FromTable(n, u), ToTable(n, u)) :
                /\ ColumnOpsNameNewTable(es, FromTable(n, u), ToTable(n, u))
                /\ RenameBeforeAlterType(es, FromTable(n, u), ToTable(n, u))
          /\ OnlyOneCommonTable(n, u) =>
                /\ ColumnOpsNameNewTable(edits, FromTable(n, u), ToTable(n, u))
                /\ RenameBeforeAlterType(edits, FromTable(n, u), ToTable(n, u))

\* diff has run on a renamed table with a column whose name and type both changed, and
\* has returned the rename-table edit and column edits behind it
C37_Witness ==
    /\ pc = "diffed"
    /\ \E n \in CommonNamespaces : \E u \in CommonTables(n) :
          /\ OnlyOneCommonTable(n, u)
          /\ FromTable(n, u).name # ToTable(n, u).name
          /\ RenamedRetypedColumns(FromTable(n, u), ToTable(n, u)) # {}
          /\ Len(edits) >= 3
          /\ IsTableRename(edits[1], FromTable(n, u), ToTable(n, u))
          /\ \E i, j \in 2..Len(edits) :
                /\ i < j
                /\ edits[i].stmt.operation.op = "RenameColumn"
                /\ edits[j].stmt.operation.op = "AlterColumn"

(***************************************************************************)
(* C38: apply preserves key/field consistency: from a catalog in which     *)
(* every namespace key equals the namespace's name, every table key equals *)
(* the table's name and every table's namespace field equals its owning    *)
(* namespace, the same holds after any sequence of Catalog::apply calls    *)
(* with any edits.                                                         *)
(***************************************************************************)
KeysMatchFields(c) ==
    \A n \in DOMAIN c.namespaces :
       /\ c.namespaces[n].name = n
       /\ \A k \in DOMAIN c.namespaces[n].tables :
             /\ c.namespaces[n].tables[k].name = k
             /\ c.namespaces[n].tables[k].namespace = n

C38_KeysMatchFields ==
    /\ KeysMatchFields(catalog)
    /\ KeysMatchFields(before) => KeysMatchFields(catalog)

\* a successful CreateTable has put a second table into a namespace, next to another
\* namespace, after at least one earlier table edit
C38_Witness ==
    /\ status = "Ok"
    /\ edit.kind = "CreateTable"
    /\ KeysMatchFields(before)
    /\ before # catalog
    /\ Cardinality(DOMAIN catalog.namespaces) = 2
    /\ Cardinality(DOMAIN catalog.namespaces[edit.table.namespace].tables) = 2

(***************************************************************************)
(* C35: after EnsembleX::commit returns, with success or with an error,    *)
(* the pending-action queue is empty: the actions not executed because an  *)
(* earlier one failed are discarded, so a commit that follows a commit     *)
(* executes no physical action and goes straight to writing the in-memory  *)
(* catalog, which still holds all staged edits, to the persisted record.   *)
(***************************************************************************)
CommitReturned == commit_ret.result # "none"

\* the step is a call of commit
IsCommitCall == edit' = NoEdit /\ commit_ret'.result # "none"

CommitLeavesQueueEmpty ==
    IsCommitCall =>
       /\ pending_actions' = <<>>
       /\ catalog' = catalog
       /\ commit_ret'.staged = pending_actions

\* a commit called right after a commit
CommitAfterCommit ==
    (CommitReturned /\ IsCommitCall) =>
       /\ commit_ret'.staged = <<>>
       /\ commit_ret'.executed = 0
       /\ objects' = objects
       /\ commit_ret'.result = "Ok" => record' = Json(catalog)
       /\ commit_ret'.result = "Err" => record' = record

C35_QueueEmptyAfterCommit ==
    /\ [](CommitReturned => pending_actions = <<>>)
    /\ [][CommitLeavesQueueEmpty /\ CommitAfterCommit]_vars

\* a commit with nothing staged has written a catalog that holds a table whose
\* creation was never executed
C35_Witness ==
    /\ commit_ret.result = "Ok"
    /\ commit_ret.staged = <<>>
    /\ record = Json(catalog)
    /\ commit_ret.record_before # record
    /\ \E n \in DOMAIN catalog.namespaces :
          \E k \in DOMAIN catalog.namespaces[n].tables : Location(n, k) \notin objects

\* a commit whose first action failed has left the queue empty with the second
\* action not executed
C35_WitnessFailed ==
    /\ commit_ret.result = "Err"
    /\ Len(commit_ret.staged) = 2
    /\ commit_ret.executed = 0
    /\ pending_actions = <<>>

(***************************************************************************)
(* C36: commit executes the pending physical actions in exactly the order  *)
(* in which their edits were staged; so when one diff script drops a table *)
(* named t and creates a table of another uuid also named t in the same    *)
(* namespace, the deletion of the objects under t runs before the creation *)
(* of the new t, and the new table is there after the commit.              *)
(***************************************************************************)
\* the physical actions that staging the edits es in order leaves in the queue
RECURSIVE StagedActions(_)
StagedActions(es) ==
    IF es = <<>> THEN <<>>
    ELSE (IF Head(es).kind = "CreateTable" THEN <<CreateTableAction(Head(es).table)>>
          ELSE IF Head(es).kind = "DropTable" THEN <<DropTableAction(Head(es).table)>>
          ELSE <<>>)
         \o StagedActions(Tail(es))

\* the place in the store that a physical action works on
ActionTarget(a) ==
    IF a.action = "CreateTable" THEN a.location ELSE Location(a.namespace, a.name)

\* the actions that the last commit executed, in the order of the queue
ExecutedActions == SubSeq(commit_ret.staged, 1, commit_ret.executed)

\* the last executed action on each place decides whether the place holds a table
LastActionDecides ==
    \A n \in NsNames : \A k \in TableNames :
       LET on == {i \in 1..Len(ExecutedActions) :
                     ActionTarget(ExecutedActions[i]) = Location(n, k)}
       IN IF on = {} THEN Location(n, k) \in objects <=> Location(n, k) \in ObjectsOf(from)
          ELSE Location(n, k) \in objects <=>
                  ExecutedActions[CHOOSE i \in on : \A j \in on : j <= i].action = "CreateTable"

\* edits i and j drop a table and create a table of another uuid under the same name
DropAndRecreate(i, j) ==
    /\ edits[i].kind = "DropTable"
    /\ edits[j].kind = "CreateTable"
    /\ edits[i].table.namespace = edits[j].table.namespace
    /\ edits[i].table.name = edits[j].table.name
    /\ edits[i].table.uuid # edits[j].table.uuid

C36_ActionsInStagedOrder ==
    CommitReturned =>
       /\ commit_ret.staged = StagedActions(edits)
       /\ LastActionDecides
       /\ \A i, j \in 1..Len(edits) :
             DropAndRecreate(i, j) =>
                /\ i < j
                /\ commit_ret.result = "Ok" =>
                      Location(edits[j].table.namespace, edits[j].table.name) \in objects

\* a commit has executed the drop of the stored table t and then the creation of
\* another table named t
C36_Witness ==
    /\ commit_ret.result = "Ok"
    /\ \E i, j \in 1..Len(edits) : DropAndRecreate(i, j)
    /\ Len(ExecutedActions) = 2
    /\ ExecutedActions[1].action = "DropTable"
    /\ ExecutedActions[2].action = "CreateTable"
    /\ ActionTarget(ExecutedActions[1]) = ActionTarget(ExecutedActions[2])
    /\ ActionTarget(ExecutedActions[2]) \in objects

(***************************************************************************)
(* AuthEval::eval_policy (catalog/src/auth.rs) and the HTTP handler        *)
(* endpoint of ostinator (ostinator/src/main.rs).                          *)
(***************************************************************************)
\* the permissive expressions of the authorization policies that are served
PolicyExprs ==
    {"true", "false", "1 = 1", "1 + 1", "NULL", "placeholder_a", "NOT placeholder_a",
     "no_such_column"}

\* ColumnarValue::Scalar(v): a ScalarValue of a data type, value "null" for None
ScalarValue(data_type, value) == [kind |-> "Scalar", data_type |-> data_type, value |-> value]

\* ColumnarValue::Array(a) over the one-row placeholder batch: row 0 of an array has a
\* validity bit and, for a BooleanArray, a value bit that value(0) reads
ArrayValue(data_type, valid, bit) ==
    [kind |-> "Array", data_type |-> data_type, valid |-> valid, bit |-> bit]

\* one of the unwrap calls of the planning or the evaluation panics
EvalPanics == [kind |-> "panic"]

\* sql_to_expr, create_physical_expr and evaluate on the placeholder batch, whose only
\* column placeholder_a is a nullable Boolean holding one null (value bit 0)
Evaluate(expr) ==
    CASE expr = "true" -> ScalarValue("Boolean", "true")
      [] expr = "false" -> ScalarValue("Boolean", "false")
      [] expr = "NULL" -> ScalarValue("Null", "null")
      [] expr = "1 = 1" -> ArrayValue("Boolean", TRUE, TRUE)
      [] expr = "1 + 1" -> ArrayValue("Int64", TRUE, FALSE)
      [] expr = "placeholder_a" -> ArrayValue("Boolean", FALSE, FALSE)
      [] expr = "NOT placeholder_a" -> ArrayValue("Boolean", FALSE, TRUE)
      [] OTHER -> EvalPanics

\* the SQL value an evaluation result stands for
SqlValue(eval) ==
    IF eval.kind = "Scalar"
    THEN IF eval.data_type = "Boolean" THEN eval.value
         ELSE IF eval.value = "null" THEN "null" ELSE "non-boolean"
    ELSE IF ~eval.valid THEN "null"
    ELSE IF eval.data_type # "Boolean" THEN "non-boolean"
    ELSE IF eval.bit THEN "true" ELSE "false"

\* the match of eval_policy on the evaluation result
MatchEval(eval) ==
    IF eval.kind = "Scalar"
    THEN eval.data_type = "Boolean" /\ eval.value = "true"
    ELSE IF eval.data_type = "Boolean" THEN eval.bit ELSE FALSE

\* AuthEval::eval_policy
eval_policy(policy) ==
    The({IF eval.kind = "panic" THEN Aborted ELSE OkValue(MatchEval(eval)) :
            eval \in {Evaluate(policy.permissive_expr)}})

\* how http_handler ended: the status of the response ("panic" for none), the result
\* of eval_policy when it was called, the bodies handed to session.execute
Response(st, authorized, executed) ==
    [status |-> st, authorized |-> authorized, executed |-> executed]

NotEvaluated == [status |-> "none"]

\* any(|p| matches!(p.typ, AuthenticationPolicyType::Anonymous()))
anonymous_access_allowed(ns) ==
    \E p \in Values(ns.authentication_policies) : p.typ = "Anonymous"

\* http_handler on a store whose record is r: get is what storage.get gives
\* EnsembleX::new, exec says which of SqlSession::new and session.execute fails
http_handler(r, get, ns_name, handler_name, exec) ==
    IF New(r, get).result # "Ok" THEN Response("panic", NotEvaluated, <<>>)
    ELSE IF ns_name \notin DOMAIN New(r, get).catalog.namespaces
    THEN Response("panic", NotEvaluated, <<>>)
    ELSE The({
        IF ~anonymous_access_allowed(ns) THEN Response("UNAUTHORIZED", NotEvaluated, <<>>)
        ELSE IF handler_name \notin DOMAIN ns.http_handlers
        THEN Response("panic", NotEvaluated, <<>>)
        ELSE IF ns.http_handlers[handler_name].policy \notin DOMAIN ns.authorization_policies
        THEN Response("panic", NotEvaluated, <<>>)
        ELSE The({
            IF authorized.status = "panic" THEN Response("panic", authorized, <<>>)
            ELSE IF ~authorized.value THEN Response("UNAUTHORIZED", authorized, <<>>)
            ELSE IF exec = "session" THEN Response("panic", authorized, <<>>)
            ELSE IF exec = "execute"
            THEN Response("panic", authorized, <<ns.http_handlers[handler_name].body>>)
            ELSE Response("OK", authorized, <<ns.http_handlers[handler_name].body>>) :
            authorized \in {eval_policy(
                ns.authorization_policies[ns.http_handlers[handler_name].policy])}}) :
        ns \in {New(r, get).catalog.namespaces[ns_name]}})

\* the handlers, each naming a policy that may or may not exist
ServedHandlerMaps(n) ==
    {EmptyMap} \cup
    {[k \in {h} |-> HttpHandler(n, h, body, policy)] :
        h \in HandlerNames, body \in Bodies, policy \in {"p", "q"}}

ServedAuthorizationMaps(n) ==
    {EmptyMap} \cup
    {[k \in {name} |-> AuthorizationPolicy(n, name, expr)] :
        name \in AuthzNames, expr \in PolicyExprs}

\* the catalogs a commit may have stored for the server
ServedCatalogs ==
    {OneNamespace(Namespace("n1", EmptyMap, handlers, authn, authz)) :
        handlers \in ServedHandlerMaps("n1"), authn \in AuthenticationMaps("n1"),
        authz \in ServedAuthorizationMaps("n1")}

InitHandler ==
    /\ IdleDiff
    /\ IdleApply
    /\ IdleCompile
    /\ IdleConductor
    /\ IdleParse
    /\ IdleWrite
    /\ IdleShell
    /\ pending_actions = <<>>
    /\ record \in {Absent, Undecodable} \cup {Json(c) : c \in ServedCatalogs}
    /\ objects = {}
    /\ commit_ret = NoCommit
    /\ new_ret = NotConstructed
    /\ request = NoRequest
    /\ response = NoResponse

\* POST /ns/:ns/handler/:handler
HttpRequest ==
    /\ response = NoResponse
    /\ \E ns_name \in NsNames, handler_name \in {"h", "g"},
          fault \in StorageFaults, exec \in {"none", "session", "execute"} :
          /\ request' = [ns_name |-> ns_name, handler_name |-> handler_name]
          /\ new_ret' = [read |-> record, get |-> StorageGet(record, fault),
                         ret |-> New(record, StorageGet(record, fault))]
          /\ response' = http_handler(record, StorageGet(record, fault), ns_name,
                                      handler_name, exec)
    /\ UNCHANGED <<diffVars, applyVars, pending_actions, record, objects, commit_ret,
                   compileVars, conductorVars, parseVars, writeVars, shellVars>>

NextHandler == HttpRequest

SpecHandler == InitHandler /\ [][NextHandler]_vars

\* the namespace the request names, when the stored catalog has it
Served == response.status # "none"

ServedNamespaceKnown ==
    Decodable(record) /\ request.ns_name \in DOMAIN Decode(record).namespaces

ServedNamespace == Decode(record).namespaces[request.ns_name]

\* the handler of the request and the policy it names are both in the namespace
ServedPolicyKnown ==
    /\ ServedNamespaceKnown
    /\ request.handler_name \in DOMAIN ServedNamespace.http_handlers
    /\ ServedNamespace.http_handlers[request.handler_name].policy
          \in DOMAIN ServedNamespace.authorization_policies

ServedPolicy ==
    ServedNamespace.authorization_policies[
        ServedNamespace.http_handlers[request.handler_name].policy]

EvalPolicyCalled == Served /\ response.authorized.status # "none"

EvalPolicyReturned == EvalPolicyCalled /\ response.authorized.status = "Ok"

\* the catalog was loaded and has the namespace of the request
ChecksReached == Served /\ new_ret.ret.result = "Ok" /\ ServedNamespaceKnown

\* the value the expression of the policy named by the handler evaluates to
ServedPolicyValue == SqlValue(Evaluate(ServedPolicy.permissive_expr))

(***************************************************************************)
(* C31: eval_policy is fail-closed: it returns true only when the          *)
(* permissive expression evaluates to boolean true, and false when the     *)
(* expression evaluates to false, to null or to a non-boolean value.       *)
(***************************************************************************)
C31_FailClosed ==
    EvalPolicyReturned => (response.authorized.value <=> ServedPolicyValue = "true")

\* what holds: eval_policy is fail-closed on every result but a Boolean array whose
\* row 0 is null, where it returns the value bit under the null
C31_FailClosedOffNullArrays ==
    (/\ EvalPolicyReturned
     /\ ~(/\ Evaluate(ServedPolicy.permissive_expr).kind = "Array"
          /\ Evaluate(ServedPolicy.permissive_expr).data_type = "Boolean"
          /\ ~Evaluate(ServedPolicy.permissive_expr).valid))
    => (response.authorized.value <=> ServedPolicyValue = "true")

\* eval_policy returned true on an expression whose value is null
C31_NullPasses ==
    EvalPolicyReturned /\ response.authorized.value /\ ServedPolicyValue = "null"

(***************************************************************************)
(* C39: the endpoint executes the body of a handler only after both checks *)
(* passed (the namespace has an authentication policy of type Anonymous    *)
(* and the authorization policy named by the handler evaluates to true);   *)
(* when either check fails the response is 401 and no body is executed.    *)
(***************************************************************************)
C39_BodyOnlyAfterBothChecks ==
    /\ (Served /\ response.executed # <<>>) =>
          /\ ChecksReached
          /\ anonymous_access_allowed(ServedNamespace)
          /\ ServedPolicyKnown
          /\ ServedPolicyValue = "true"
    /\ (/\ ChecksReached
        /\ \/ ~anonymous_access_allowed(ServedNamespace)
           \/ /\ ServedPolicyKnown
              /\ Evaluate(ServedPolicy.permissive_expr).kind # "panic"
              /\ ServedPolicyValue # "true") =>
          /\ response.status = "UNAUTHORIZED"
          /\ response.executed = <<>>

\* what holds: the body is executed only when the namespace has an Anonymous policy and
\* eval_policy returned true, and a request that fails the Anonymous check or for which
\* eval_policy returned false is answered 401 without executing anything
C39_BodyOnlyAfterEvalPolicyTrue ==
    /\ (Served /\ response.executed # <<>>) =>
          /\ ChecksReached
          /\ anonymous_access_allowed(ServedNamespace)
          /\ ServedPolicyKnown
          /\ response.authorized = OkValue(TRUE)
          /\ response.executed = <<ServedNamespace.http_handlers[request.handler_name].body>>
    /\ (/\ ChecksReached
        /\ \/ ~anonymous_access_allowed(ServedNamespace)
           \/ response.authorized = OkValue(FALSE)) =>
          /\ response.status = "UNAUTHORIZED"
          /\ response.executed = <<>>

\* a body was executed although the policy of its handler evaluates to null
C39_BodyExecutedOnNull ==
    Served /\ response.executed # <<>> /\ ServedPolicyKnown /\ ServedPolicyValue = "null"

(***************************************************************************)
(* TableX (ensemble-x/src/lib.rs): a handle on a physical table, holding   *)
(* its DeltaTable behind a Mutex of its own.  EnsembleX::table makes a new *)
(* handle at every call; a handle may be shared by several tasks.          *)
(***************************************************************************)
MaxHandles == 3

\* the locations that hold a physical table
PhysicalTables == {Location("n1", "t"), Location("n1", "s")}

\* Arc::new(TableX { inner: Mutex::new(table) })
TableX(location) == [table |-> location, inner |-> "free"]

InitWrite ==
    /\ IdleDiff
    /\ IdleApply
    /\ IdleEnsemble
    /\ IdleCompile
    /\ IdleConductor
    /\ IdleParse
    /\ IdleHandler
    /\ IdleShell
    /\ tablex = <<>>
    /\ writes = [w \in Writers |-> NotWriting]

\* EnsembleX::table(namespace, name) returning Ok
OpenTable ==
    /\ Len(tablex) < MaxHandles
    /\ \E location \in PhysicalTables : tablex' = Append(tablex, TableX(location))
    /\ UNCHANGED <<writes, diffVars, applyVars, ensembleVars, compileVars, conductorVars,
                   parseVars, handlerVars, shellVars>>

\* a task calls TableX::write on one of the handles and waits for self.inner.lock()
StartWrite(w) ==
    /\ writes[w].pc = "idle"
    /\ \E h \in 1..Len(tablex) :
          writes' = [writes EXCEPT ![w] = [pc |-> "locking", handle |-> h]]
    /\ UNCHANGED <<tablex, diffVars, applyVars, ensembleVars, compileVars, conductorVars,
                   parseVars, handlerVars, shellVars>>

\* self.inner.lock().await completes when the Mutex of the handle is free: the guard
\* is taken and RecordBatchWriter::for_table gives the writer
Lock(w) ==
    /\ writes[w].pc = "locking"
    /\ tablex[writes[w].handle].inner = "free"
    /\ tablex' = [tablex EXCEPT ![writes[w].handle].inner = w]
    /\ writes' = [writes EXCEPT ![w].pc = "writing"]
    /\ UNCHANGED <<diffVars, applyVars, ensembleVars, compileVars, conductorVars,
                   parseVars, handlerVars, shellVars>>

\* the while loop has written every batch of the input
WriteBatches(w) ==
    /\ writes[w].pc = "writing"
    /\ writes' = [writes EXCEPT ![w].pc = "committing"]
    /\ UNCHANGED <<tablex, diffVars, applyVars, ensembleVars, compileVars, conductorVars,
                   parseVars, handlerVars, shellVars>>

\* writer.flush_and_commit(&mut table) returns Ok, write returns and drops the guard
FlushAndCommit(w) ==
    /\ writes[w].pc = "committing"
    /\ tablex' = [tablex EXCEPT ![writes[w].handle].inner = "free"]
    /\ writes' = [writes EXCEPT ![w] = NotWriting]
    /\ UNCHANGED <<diffVars, applyVars, ensembleVars, compileVars, conductorVars,
                   parseVars, handlerVars, shellVars>>

\* one of the `?` of write returns an error, which drops the guard
WriteFails(w) ==
    /\ writes[w].pc \in {"writing", "committing"}
    /\ tablex' = [tablex EXCEPT ![writes[w].handle].inner = "free"]
    /\ writes' = [writes EXCEPT ![w] = NotWriting]
    /\ UNCHANGED <<diffVars, applyVars, ensembleVars, compileVars, conductorVars,
                   parseVars, handlerVars, shellVars>>

NextWrite ==
    \/ OpenTable
    \/ \E w \in Writers : StartWrite(w)
    \/ \E w \in Writers : Lock(w)
    \/ \E w \in Writers : WriteBatches(w)
    \/ \E w \in Writers : FlushAndCommit(w)
    \/ \E w \in Writers : WriteFails(w)

SpecWrite == InitWrite /\ [][NextWrite]_vars

\* the write of w is between starting to write its batches and the end of
\* flush_and_commit
InWrite(w) == writes[w].pc \in {"writing", "committing"}

WrittenTable(w) == tablex[writes[w].handle].table

(***************************************************************************)
(* C32: writes to one physical table are serialized: no two write          *)
(* operations on the same physical table are both between starting to      *)
(* write their batches and finishing flush-and-commit, whether they go     *)
(* through one TableX handle or through different handles on that table.   *)
(***************************************************************************)
C32_WritesSerialized ==
    \A w1, w2 \in Writers :
        (w1 # w2 /\ InWrite(w1) /\ InWrite(w2)) => WrittenTable(w1) # WrittenTable(w2)

\* what holds: the writes through one handle are serialized, and the Mutex of a handle
\* is held by the one write that is in progress on it
C32_SerializedPerHandle ==
    /\ \A w1, w2 \in Writers :
          (w1 # w2 /\ InWrite(w1) /\ InWrite(w2)) => writes[w1].handle # writes[w2].handle
    /\ \A w \in Writers : InWrite(w) => tablex[writes[w].handle].inner = w

\* two writes are in progress on one physical table, through two handles
C32_TwoWritesOnOneTable ==
    \E w1, w2 \in Writers :
        /\ w1 # w2 /\ InWrite(w1) /\ InWrite(w2)
        /\ WrittenTable(w1) = WrittenTable(w2)
        /\ writes[w1].handle # writes[w2].handle

(***************************************************************************)
(* The interactive SQL shell (conductor/src/main.rs, sql_ensemble_x): the  *)
(* loop over rl.readline and its requested_interrupt flag.                 *)
(***************************************************************************)
MaxEvents == 4

\* a line is the sequence of its characters; "s" stands for a character of SQL text
ExitLine == <<"e", "x", "i", "t">>

ShellLines == {<<>>, <<" ">>, ExitLine, <<" ">> \o ExitLine, ExitLine \o <<" ">>, <<"s">>,
               <<" ", "s", " ">>}

RECURSIVE TrimStart(_)
TrimStart(line) ==
    IF line # <<>> /\ Head(line) = " " THEN TrimStart(Tail(line)) ELSE line

RECURSIVE TrimEnd(_)
TrimEnd(line) ==
    IF line # <<>> /\ line[Len(line)] = " "
    THEN TrimEnd(SubSeq(line, 1, Len(line) - 1)) ELSE line

\* str::trim
Trim(line) == TrimEnd(TrimStart(line))

\* what happens to a line that is executed: add_history_entry fails ("history"),
\* execute returns Ok and the batches are printed ("printed") or print_batches fails
\* ("print"), execute returns Err ("error"), execute panics ("panic")
LineOutcomes == {"history", "printed", "print", "error", "panic"}

ShellState(flag, sh) == [requested_interrupt |-> flag, shell |-> sh]

\* faulty variant: the flag is cleared only by a line that is executed
OnLine_ClearWhenExecuted(line, flag, outcome) ==
    IF line = ExitLine THEN ShellState(flag, "exited")
    ELSE IF Trim(line) = <<>> THEN ShellState(flag, "reading")
    ELSE IF outcome = "history" THEN ShellState(FALSE, "failed")
    ELSE IF outcome = "print" THEN ShellState(FALSE, "failed")
    ELSE IF outcome = "panic" THEN ShellState(FALSE, "panic")
    ELSE ShellState(FALSE, "reading")

\* the arm Ok(line) of the match on the result of rl.readline
OnLine(line, flag, outcome) ==
    IF line = ExitLine THEN ShellState(FALSE, "exited")
    ELSE IF Trim(line) = <<>> THEN ShellState(FALSE, "reading")
    ELSE IF outcome = "history" THEN ShellState(FALSE, "failed")
    ELSE IF outcome = "print" THEN ShellState(FALSE, "failed")
    ELSE IF outcome = "panic" THEN ShellState(FALSE, "panic")
    ELSE ShellState(FALSE, "reading")

LineEvent(line) == [kind |-> "Line", line |-> line]

InitShell ==
    /\ IdleDiff
    /\ IdleApply
    /\ IdleEnsemble
    /\ IdleCompile
    /\ IdleConductor
    /\ IdleParse
    /\ IdleHandler
    /\ IdleWrite
    /\ requested_interrupt = FALSE
    /\ shell = "reading"
    /\ events = <<>>

CanRead == shell = "reading" /\ Len(events) < MaxEvents

\* rl.readline returns Ok(line)
ReadLine ==
    /\ CanRead
    /\ \E line \in ShellLines, outcome \in LineOutcomes :
          /\ events' = Append(events, LineEvent(line))
          /\ requested_interrupt' = OnLine(line, requested_interrupt, outcome).requested_interrupt
          /\ shell' = OnLine(line, requested_interrupt, outcome).shell
    /\ UNCHANGED <<diffVars, applyVars, ensembleVars, compileVars, conductorVars, parseVars,
                   handlerVars, writeVars>>

\* rl.readline returns Err(ReadlineError::Eof)
ReadEof ==
    /\ CanRead
    /\ events' = Append(events, [kind |-> "Eof"])
    /\ shell' = "exited"
    /\ UNCHANGED <<requested_interrupt, diffVars, applyVars, ensembleVars, compileVars,
                   conductorVars, parseVars, handlerVars, writeVars>>

\* rl.readline returns Err(ReadlineError::Interrupted)
ReadInterrupted ==
    /\ CanRead
    /\ events' = Append(events, [kind |-> "Interrupted"])
    /\ IF requested_interrupt
       THEN /\ shell' = "exited"
            /\ UNCHANGED requested_interrupt
       ELSE /\ requested_interrupt' = TRUE
            /\ UNCHANGED shell
    /\ UNCHANGED <<diffVars, applyVars, ensembleVars, compileVars, conductorVars, parseVars,
                   handlerVars, writeVars>>

\* rl.readline returns any other Err
ReadError ==
    /\ CanRead
    /\ events' = Append(events, [kind |-> "Error"])
    /\ UNCHANGED <<requested_interrupt, shell, diffVars, applyVars, ensembleVars, compileVars,
                   conductorVars, parseVars, handlerVars, writeVars>>

NextShell ==
    \/ ReadLine
    \/ ReadEof
    \/ ReadInterrupted
    \/ ReadError

SpecShell == InitShell /\ [][NextShell]_vars

\* the result readline returned last, and the event read by the step being taken
LastEvent == events[Len(events)]

ReadsEvent(kind) == Len(events') = Len(events) + 1 /\ events'[Len(events')].kind = kind

\* an interrupt was read before the last event and no line was read after it
InterruptPending(n) ==
    \E i \in 1..n :
        /\ events[i].kind = "Interrupted"
        /\ \A j \in i + 1..n : events[j].kind # "Line"

(***************************************************************************)
(* C40: the shell exits on an interrupt only when the last event read      *)
(* before it, lines and interrupts counted, was not a line: a first        *)
(* interrupt sets the flag and the loop goes on, an interrupt read while   *)
(* the flag is set exits, every line read, blank ones included, clears the *)
(* flag, and the line exit and the end of input always exit.               *)
(***************************************************************************)
C40_InterruptExit ==
    /\ [](/\ (shell = "reading") => (requested_interrupt <=> InterruptPending(Len(events)))
          /\ (events # <<>> /\ LastEvent.kind = "Interrupted" /\ shell = "exited")
                => /\ Len(events) > 1
                   /\ InterruptPending(Len(events) - 1)
                   /\ events[Len(events) - 1].kind # "Line"
          /\ (events # <<>> /\ LastEvent.kind = "Line" /\ shell = "reading")
                => ~requested_interrupt
          /\ (events # <<>> /\ LastEvent.kind = "Eof") => shell = "exited"
          /\ (events # <<>> /\ LastEvent = LineEvent(ExitLine)) => shell = "exited")
    /\ [][/\ (ReadsEvent("Interrupted") /\ ~requested_interrupt)
                => (requested_interrupt' /\ shell' = "reading")
          /\ (ReadsEvent("Interrupted") /\ requested_interrupt) => shell' = "exited"
          /\ ReadsEvent("Line") => ~requested_interrupt'
          /\ ReadsEvent("Error") => UNCHANGED <<requested_interrupt, shell>>]_vars

\* a blank line was read between two interrupts and the shell is still reading
C40_Witness ==
    /\ Len(events) = 3
    /\ events[1].kind = "Interrupted"
    /\ events[2] = LineEvent(<<" ">>)
    /\ events[3].kind = "Interrupted"
    /\ shell = "reading"
    /\ requested_interrupt

\* the second of two interrupts, with a failed read between them, has left the shell
C40_WitnessExit ==
    /\ Len(events) = 3
    /\ events[1].kind = "Interrupted"
    /\ events[2].kind = "Error"
    /\ events[3].kind = "Interrupted"
    /\ shell = "exited"

====
